---- MODULE Spec2Model ----
(***************************************************************************)
(* Face labelling of STEP exports (b-rat/CAD_gen).                         *)
(*                                                                         *)
(* Every build script classifies the faces of a solid (classify_faces)     *)
(* and injects the labels into the exported STEP file (write_labels).      *)
(* The file text is modelled lexeme by lexeme: a text is a sequence of     *)
(* tokens and the concatenation of the tokens' lexemes is the byte string, *)
(* so two texts are byte-identical exactly when the token sequences are    *)
(* equal.  The regular expressions of the scripts are modelled as          *)
(* scanners over these tokens.                                             *)
(***************************************************************************)
EXTENDS Integers, Sequences, FiniteSets, TLC

(***************************************************************************)
(* Bounds of the model.                                                    *)
(***************************************************************************)
\* longest label sequence handed to write_labels
MaxLabels == 3
\* write_labels calls made on one file in one behaviour
MaxCalls == 2

(***************************************************************************)
(* Lexemes of a STEP file.                                                 *)
(***************************************************************************)
Tok(k, v) == [k |-> k, v |-> v]
\* #<digits>
Id(n) == Tok("id", n)
\* an entity keyword or an enumeration such as .T.
Kw(s) == Tok("kw", s)
\* a quoted string 's' (s holds no quote)
Str(s) == Tok("str", s)
\* one of ( ) , = ;
P(c) == Tok("p", c)
SP == Tok("ws", " ")
TAB == Tok("ws", "\t")
NL == Tok("nl", "\n")

\* Python's \s : blank, tab or line break
IsSpace(t) == t.k \in {"ws", "nl"}

\* first position at or after i that holds no white space (the greedy \s*)
RECURSIVE SkipWs(_, _)
SkipWs(s, i) ==
  IF i <= Len(s) /\ IsSpace(s[i]) THEN SkipWs(s, i + 1) ELSE i

\* s[i] exists and is the token t
At(s, i, t) == i <= Len(s) /\ s[i] = t

\* s[i] exists and is a quoted string: '[^']*'
AtStr(s, i) == i <= Len(s) /\ s[i].k = "str"

\* the least element of a non-empty set of positions: the leftmost match
MinOf(S) == CHOOSE x \in S : \A y \in S : x <= y

\* re.findall(r'#(\d+)', s)
FindIds(s) ==
  LET ids == SelectSeq(s, LAMBDA t : t.k = "id")
  IN [i \in 1..Len(ids) |-> ids[i].v]

\* str.strip()
RECURSIVE RStrip(_)
RStrip(s) ==
  IF s # <<>> /\ IsSpace(s[Len(s)]) THEN RStrip(SubSeq(s, 1, Len(s) - 1)) ELSE s

Strip(s) == RStrip(SubSeq(s, SkipWs(s, 1), Len(s)))


(***************************************************************************)
(* The exported files write_labels is run on.  A file is a header line,    *)
(* the entity records of a structure and a trailer line, each ended by a   *)
(* line break.  The layout says how a record is spaced and wrapped: the    *)
(* exporter writes "#11 = ADVANCED_FACE('',...)" and wraps long records    *)
(* onto continuation lines that begin with blanks.                         *)
(***************************************************************************)
AF == Kw("ADVANCED_FACE")
CS == Kw("CLOSED_SHELL")

Layouts == {"compact", "occ", "spaced", "wrapshell", "wrapface"}
Structures == {"single", "double", "noshell", "nonface"}

EqSign(layout) == IF layout = "compact" THEN <<P("=")>> ELSE <<SP, P("="), SP>>

\* #id = ADVANCED_FACE('name',#41);
FaceRec(id, name, layout) ==
  <<Id(id)>> \o EqSign(layout) \o <<AF>>
  \o (CASE layout = "spaced" -> <<SP, P("("), SP>>
        [] layout = "wrapface" -> <<P("("), NL, SP, SP>>
        [] OTHER -> <<P("(")>>)
  \o <<Str(name), P(","), Id("41"), P(")"), P(";")>>

\* #a,#b,...  with the last reference wrapped onto a continuation line
RECURSIVE RefList(_, _)
RefList(refs, layout) ==
  IF refs = <<>> THEN <<>>
  ELSE IF Len(refs) = 1 THEN <<Id(refs[1])>>
  ELSE <<Id(refs[1]), P(",")>>
       \o (IF layout = "wrapshell" /\ Len(refs) = 2 THEN <<NL, TAB>> ELSE <<>>)
       \o RefList(Tail(refs), layout)

\* #id = CLOSED_SHELL('',(#a,#b));
ShellRec(id, refs, layout) ==
  <<Id(id)>> \o EqSign(layout) \o <<CS, P("("), Str(""), P(","), P("(")>>
  \o RefList(refs, layout) \o <<P(")"), P(")"), P(";")>>

\* #41 = PLANE('',#51);   a record that is no face
PlaneRec(layout) ==
  <<Id("41")>> \o EqSign(layout)
  \o <<Kw("PLANE"), P("("), Str(""), P(","), Id("51"), P(")"), P(";")>>

Records(structure, layout) ==
  CASE structure = "single" ->
         << ShellRec("10", <<"11", "12">>, layout),
            FaceRec("11", "", layout), FaceRec("12", "", layout),
            PlaneRec(layout) >>
    [] structure = "double" ->
         << ShellRec("10", <<"11", "12">>, layout),
            FaceRec("11", "", layout), FaceRec("12", "", layout),
            ShellRec("20", <<"21">>, layout),
            FaceRec("21", "", layout), PlaneRec(layout) >>
    [] structure = "noshell" ->
         << FaceRec("11", "", layout), FaceRec("12", "", layout),
            PlaneRec(layout) >>
    [] structure = "nonface" ->
         << ShellRec("10", <<"11", "41">>, layout),
            FaceRec("11", "", layout), PlaneRec(layout) >>

\* '\n'.join(lines)
RECURSIVE JoinNL(_)
JoinNL(ls) ==
  IF ls = <<>> THEN <<>>
  ELSE IF Len(ls) = 1 THEN ls[1]
  ELSE ls[1] \o <<NL>> \o JoinNL(Tail(ls))

StepFile(structure, layout) ==
  JoinNL(<< <<Kw("DATA"), P(";")>> >> \o Records(structure, layout)
         \o << <<Kw("ENDSEC"), P(";")>>, <<>> >>)

Files == {StepFile(st, la) : st \in Structures, la \in Layouts}

(***************************************************************************)
(* The label sequences a classifier hands over.                            *)
(***************************************************************************)
LabelSet == {"", "top"}

RECURSIVE SeqsUpTo(_, _)
SeqsUpTo(S, n) ==
  IF n = 0 THEN {<<>>}
  ELSE LET shorter == SeqsUpTo(S, n - 1)
       IN shorter \cup {Append(q, x) : q \in shorter, x \in S}

LabelSeqs == SeqsUpTo(LabelSet, MaxLabels)

(***************************************************************************)
(* Line-joining parser (build_cylinder, l_bracket, crankset).              *)
(***************************************************************************)
\* content.split('\n')
RECURSIVE SplitFrom(_, _)
SplitFrom(s, i) ==
  LET breaks == {j \in i..Len(s) : s[j].k = "nl"}
  IN IF breaks = {} THEN <<SubSeq(s, i, Len(s))>>
     ELSE <<SubSeq(s, i, MinOf(breaks) - 1)>> \o SplitFrom(s, MinOf(breaks) + 1)

SplitLines(content) == SplitFrom(content, 1)

\* a continuation test that knows the tab alone (not the code)
IsContinuationTabOnly(line) == line # <<>> /\ line[1] = TAB

\* a physical line that begins with a blank or a tab continues the record before
IsContinuation(line) == line # <<>> /\ line[1].k = "ws"

RECURSIVE JoinAcc(_, _, _)
JoinAcc(lines, i, joined) ==
  IF i > Len(lines) THEN joined
  ELSE IF IsContinuation(lines[i]) /\ joined # <<>>
       THEN JoinAcc(lines, i + 1,
                    [joined EXCEPT ![Len(joined)] = @ \o lines[i]])
  ELSE JoinAcc(lines, i + 1, Append(joined, lines[i]))

JoinContinuation(content) == JoinAcc(SplitLines(content), 1, <<>>)

\* re.match(r'^#(\d+)\s*=\s*(.*)', line): the position of the body, 0 on no match
BodyStart(line) ==
  IF line # <<>> /\ line[1].k = "id"
  THEN LET e == SkipWs(line, 2)
       IN IF At(line, e, P("=")) THEN SkipWs(line, e + 1) ELSE 0
  ELSE 0

\* m.group(2).strip()
EntityText(line) == Strip(SubSeq(line, BodyStart(line), Len(line)))

\* the keys of the dict entities, in insertion order
RECURSIVE EntityOrder(_, _, _)
EntityOrder(joined, i, seen) ==
  IF i > Len(joined) THEN <<>>
  ELSE IF BodyStart(joined[i]) # 0 /\ joined[i][1].v \notin seen
       THEN <<joined[i][1].v>>
            \o EntityOrder(joined, i + 1, seen \cup {joined[i][1].v})
  ELSE EntityOrder(joined, i + 1, seen)

\* entities[eid][1]: the index of the last line that defines eid, 0 for a KeyError
LineOf(joined, eid) ==
  LET hits == {i \in 1..Len(joined) :
                 BodyStart(joined[i]) # 0 /\ joined[i][1].v = eid}
  IN IF hits = {} THEN 0 ELSE CHOOSE i \in hits : \A j \in hits : j <= i

IsShellText(text) == text # <<>> /\ text[1] = CS

\* the eids whose text starts with CLOSED_SHELL, in dict order
ShellEids(joined) ==
  SelectSeq(EntityOrder(joined, 1, {}),
            LAMBDA eid : IsShellText(EntityText(joined[LineOf(joined, eid)])))

RECURSIVE ConcatRefs(_, _)
ConcatRefs(joined, eids) ==
  IF eids = <<>> THEN <<>>
  ELSE FindIds(EntityText(joined[LineOf(joined, Head(eids))]))
       \o ConcatRefs(joined, Tail(eids))

\* build_cylinder, l_bracket: the first shell only (break)
FirstShellRefs(joined) ==
  IF ShellEids(joined) = <<>> THEN <<>>
  ELSE ConcatRefs(joined, <<Head(ShellEids(joined))>>)

\* crankset: every shell, concatenated (extend)
AllShellRefs(joined) == ConcatRefs(joined, ShellEids(joined))

\* a pattern that takes any keyword for ADVANCED_FACE (not the code)
KeywordNameAt(line, i) ==
  LET p == SkipWs(line, i + 1)
      q == SkipWs(line, p + 1)
  IN IF line[i].k = "kw" /\ At(line, p, P("(")) /\ AtStr(line, q) THEN q ELSE 0

\* re.sub(r"ADVANCED_FACE\s*\(\s*'[^']*'", f"ADVANCED_FACE('{label}'", line)
\* the pattern tried at position i: the position of the string, 0 on no match
FaceNameAt(line, i) ==
  LET p == SkipWs(line, i + 1)
      q == SkipWs(line, p + 1)
  IN IF line[i] = AF /\ At(line, p, P("(")) /\ AtStr(line, q) THEN q ELSE 0

\* every match from position i on is replaced, left to right
RECURSIVE SubFaceName(_, _, _)
SubFaceName(line, i, label) ==
  LET found == {j \in i..Len(line) : FaceNameAt(line, j) # 0}
  IN IF found = {} THEN SubSeq(line, i, Len(line))
     ELSE LET j == MinOf(found)
          IN SubSeq(line, i, j - 1) \o <<AF, P("("), Str(label)>>
             \o SubFaceName(line, FaceNameAt(line, j) + 1, label)

\* the loop "for idx, eid in enumerate(face_eids)"; a KeyError ends it
RECURSIVE WriteLoop(_, _, _, _)
WriteLoop(joined, face_eids, face_labels, idx) ==
  IF idx > Len(face_eids) THEN [err |-> "", joined |-> joined]
  ELSE LET line_idx == LineOf(joined, face_eids[idx])
       IN IF line_idx = 0 THEN [err |-> "KeyError", joined |-> joined]
          ELSE WriteLoop(
                 [joined EXCEPT ![line_idx] =
                    SubFaceName(joined[line_idx], 1, face_labels[idx])],
                 face_eids, face_labels, idx + 1)

(***************************************************************************)
(* Pattern-based parser (disc, spoke_v2, showerhead_tee, coffee_mug,       *)
(* cross_assembly).                                                        *)
(***************************************************************************)
\* re.sub(r"\n\s+", " ", raw)
RECURSIVE CollapseFrom(_, _)
CollapseFrom(raw, i) ==
  LET found == {j \in i..(Len(raw) - 1) : raw[j].k = "nl" /\ IsSpace(raw[j + 1])}
  IN IF found = {} THEN SubSeq(raw, i, Len(raw))
     ELSE LET j == MinOf(found)
          IN SubSeq(raw, i, j - 1) \o <<SP>>
             \o CollapseFrom(raw, SkipWs(raw, j + 1))

Collapse(raw) == CollapseFrom(raw, 1)

\* first position at or after i that holds a closing parenthesis, 0 if none
FindClose(s, i) ==
  LET closes == {j \in i..Len(s) : s[j] = P(")")}
  IN IF closes = {} THEN 0 ELSE MinOf(closes)

\* CLOSED_SHELL\s*\(\s*'[^']*'\s*,\s*\(([^)]+)\)  tried at position i:
\* [open, close] are the parentheses around group 1, close = 0 on no match
ShellMatchAt(s, i) ==
  LET a == SkipWs(s, i + 1)
      b == SkipWs(s, a + 1)
      c == SkipWs(s, b + 1)
      d == SkipWs(s, c + 1)
      e == FindClose(s, d + 1)
  IN IF /\ s[i] = CS
        /\ At(s, a, P("("))
        /\ AtStr(s, b)
        /\ At(s, c, P(","))
        /\ At(s, d, P("("))
        /\ e > d + 1
     THEN [open |-> d, close |-> e]
     ELSE [open |-> 0, close |-> 0]

\* re.search: the leftmost match from position i on, close = 0 if there is none
ShellSearch(s, i) ==
  LET found == {j \in i..Len(s) : ShellMatchAt(s, j).close # 0}
  IN IF found = {} THEN [open |-> 0, close |-> 0]
     ELSE ShellMatchAt(s, MinOf(found))

\* re.findall(r"#(\d+)", cs_match.group(1))
SearchedShellRefs(s) ==
  LET m == ShellSearch(s, 1)
  IN FindIds(SubSeq(s, m.open + 1, m.close - 1))

\* cross_assembly: the pattern goes on with \s*\) and re.findall takes every match
ShellEndAt(s, i) ==
  LET m == ShellMatchAt(s, i)
      z == SkipWs(s, m.close + 1)
  IN IF m.close # 0 /\ At(s, z, P(")")) THEN z ELSE 0

RECURSIVE FindAllShellRefs(_, _)
FindAllShellRefs(s, i) ==
  LET found == {j \in i..Len(s) : ShellEndAt(s, j) # 0}
  IN IF found = {} THEN <<>>
     ELSE LET m == ShellMatchAt(s, MinOf(found))
          IN FindIds(SubSeq(s, m.open + 1, m.close - 1))
             \o FindAllShellRefs(s, ShellEndAt(s, MinOf(found)) + 1)

\* the face pattern without the id in front of it: it matches every face record
FaceMatchAtAnyId(s, i, fid) ==
  LET a == SkipWs(s, i + 1)
      b == SkipWs(s, a + 1)
      c == SkipWs(s, b + 1)
      d == SkipWs(s, c + 1)
  IN IF /\ s[i].k = "id"
        /\ At(s, a, P("="))
        /\ At(s, b, AF)
        /\ At(s, c, P("("))
        /\ AtStr(s, d)
     THEN [paren |-> c, name |-> d]
     ELSE [paren |-> 0, name |-> 0]

\* (#{fid}\s*=\s*ADVANCED_FACE\s*\()\s*'[^']*'  tried at position i:
\* [paren, name] are the positions of "(" and of the string, name = 0 on no match
FaceMatchAt(s, i, fid) ==
  LET a == SkipWs(s, i + 1)
      b == SkipWs(s, a + 1)
      c == SkipWs(s, b + 1)
      d == SkipWs(s, c + 1)
  IN IF /\ s[i] = Id(fid)
        /\ At(s, a, P("="))
        /\ At(s, b, AF)
        /\ At(s, c, P("("))
        /\ AtStr(s, d)
     THEN [paren |-> c, name |-> d]
     ELSE [paren |-> 0, name |-> 0]

\* disc, spoke_v2, showerhead_tee, cross_assembly:
\* re.sub(pattern, rf"\g<1>'{label}'", text) keeps group 1 and drops the \s* after it
RECURSIVE SubFace(_, _, _, _)
SubFace(s, i, fid, label) ==
  LET found == {j \in i..Len(s) : FaceMatchAt(s, j, fid).name # 0}
  IN IF found = {} THEN SubSeq(s, i, Len(s))
     ELSE LET m == FaceMatchAt(s, MinOf(found), fid)
          IN SubSeq(s, i, m.paren) \o <<Str(label)>>
             \o SubFace(s, m.name + 1, fid, label)

\* coffee_mug: (#{fid}\s*=\s*ADVANCED_FACE\s*\(\s*')([^']*?)(') keeps both quotes
\* and all that stands before the string
RECURSIVE SubFaceKeep(_, _, _, _)
SubFaceKeep(s, i, fid, label) ==
  LET found == {j \in i..Len(s) : FaceMatchAt(s, j, fid).name # 0}
  IN IF found = {} THEN SubSeq(s, i, Len(s))
     ELSE LET m == FaceMatchAt(s, MinOf(found), fid)
          IN SubSeq(s, i, m.name - 1) \o <<Str(label)>>
             \o SubFaceKeep(s, m.name + 1, fid, label)

\* for fid, label in zip(face_ids, labels): text = re.sub(...)
RECURSIVE ZipSub(_, _, _, _)
ZipSub(s, face_ids, labels, keep) ==
  IF face_ids = <<>> \/ labels = <<>> THEN s
  ELSE ZipSub(IF keep THEN SubFaceKeep(s, 1, Head(face_ids), Head(labels))
                      ELSE SubFace(s, 1, Head(face_ids), Head(labels)),
              Tail(face_ids), Tail(labels), keep)

(***************************************************************************)
(* write_labels as a state machine.  One behaviour is one build script     *)
(* working on its own output file.                                         *)
(***************************************************************************)
LineJoinScripts == {"cylinder", "l_bracket", "crankset"}
CollapseScripts == {"disc", "spoke_v2", "showerhead_tee"}
Scripts == LineJoinScripts \cup CollapseScripts \cup {"coffee_mug", "cross_assembly"}

VARIABLES
  file,       \* the text of the STEP file on disk
  script,     \* the build script whose write_labels runs
  pc,         \* position in write_labels
  calls,      \* write_labels calls started so far
  labels,     \* the argument face_labels / labels
  raw,        \* the text as read (content, raw, step_text; text in coffee_mug)
  joined,     \* the list of logical lines (line-joining scripts)
  text,       \* the white-space collapsed text (text; joined in coffee_mug)
  face_ids,   \* face_eids / face_ids: the ids taken from the shell record(s)
  err,        \* the condition the call ended with, "" if none
  opens,      \* times the file was opened for writing in the current call
  steps,      \* the steps of the current call that have run, in order
  pre,        \* the file as it was when the current call started
  last,       \* labels and end position of the call before the current one
  part,       \* the build script whose classify_faces runs, "none" if none does
  faces,      \* the faces of the solid, in the kernel's traversal order
  class_labels, \* the list labels that classify_faces builds
  counters,   \* the running numbers of the repeated features
  cpc,        \* position in classify_faces
  earlier,    \* the label lists that earlier classify_faces calls returned
  fscript,    \* the build script whose classification rules one face is put to
  face,       \* that face: surface kind, radius, centroid, normal
  flabel,     \* the label the rules give it
  index,      \* the sector (spoke, groove, arm) index the rules computed, -1 if none
  fpc,        \* position in the body of the classification loop
  mscript,    \* the build script whose __main__ runs
  solid,      \* the faces of the solid build_geometry returned
  source,     \* what classify_faces was handed: "solid" or "file"
  mfaces,     \* the faces classify_faces works on
  mlabels,    \* the labels it returned
  unlabeled,  \* the number of unlabeled faces the summary reports, -1 if none
  written,    \* whether write_labels was handed the labels and wrote them
  mpc,        \* position in __main__
  default_views, \* the module-level dict DEFAULT_VIEWS of render_step.py
  overrides,  \* the argument of _merge_views: given or None, and the map
  views,      \* the dict _merge_views returned
  merges,     \* _merge_views calls started so far
  rpc         \* position in _merge_views

wvars == <<file, script, pc, calls, labels, raw, joined, text, face_ids, err,
           opens, steps, pre, last>>

cvars == <<part, faces, class_labels, counters, cpc, earlier>>

fvars == <<fscript, face, flabel, index, fpc>>

mvars == <<mscript, solid, source, mfaces, mlabels, unlabeled, written, mpc>>

rvars == <<default_views, overrides, views, merges, rpc>>

vars == <<wvars, cvars, fvars, mvars, rvars>>

\* classify_faces at rest
ClassifyIdle ==
  /\ part = "none"
  /\ faces = <<>>
  /\ class_labels = <<>>
  /\ counters = <<>>
  /\ cpc = "idle"
  /\ earlier = <<>>

\* no single face under classification
FaceIdle ==
  /\ fscript = "none"
  /\ face = <<>>
  /\ flabel = ""
  /\ index = -1
  /\ fpc = "idle"

\* no __main__ running
MainIdle ==
  /\ mscript = "none"
  /\ solid = <<>>
  /\ source = ""
  /\ mfaces = <<>>
  /\ mlabels = <<>>
  /\ unlabeled = -1
  /\ written = FALSE
  /\ mpc = "idle"

\* render_step.py not loaded
RenderIdle ==
  /\ default_views = <<>>
  /\ overrides = <<>>
  /\ views = <<>>
  /\ merges = 0
  /\ rpc = "idle"

Ended == {"done", "returned", "fatal"}

Init ==
  /\ file \in Files
  /\ script \in Scripts
  /\ pc = "idle"
  /\ calls = 0
  /\ labels = <<>>
  /\ raw = <<>>
  /\ joined = <<>>
  /\ text = <<>>
  /\ face_ids = <<>>
  /\ err = ""
  /\ opens = 0
  /\ steps = <<>>
  /\ pre = file
  /\ last = [labels |-> <<>>, pc |-> "idle"]
  /\ ClassifyIdle
  /\ FaceIdle
  /\ MainIdle
  /\ RenderIdle

\* a call that opens the file for writing as soon as it has read it
CallTruncating(ls) ==
  /\ pc \in Ended \cup {"idle"}
  /\ calls < MaxCalls
  /\ calls' = calls + 1
  /\ labels' = ls
  /\ raw' = file
  /\ pre' = file
  /\ last' = [labels |-> labels, pc |-> pc]
  /\ joined' = <<>>
  /\ text' = <<>>
  /\ face_ids' = <<>>
  /\ err' = ""
  /\ opens' = 1
  /\ file' = <<>>
  /\ steps' = <<"read">>
  /\ pc' = IF script = "cross_assembly" THEN "shell" ELSE "join"
  /\ UNCHANGED <<cvars, fvars, mvars, rvars>>
  /\ UNCHANGED script

\* def write_labels(filepath, labels): with open(filepath) as f: raw = f.read()
Call(ls) ==
  /\ pc \in Ended \cup {"idle"}
  /\ calls < MaxCalls
  /\ calls' = calls + 1
  /\ labels' = ls
  /\ raw' = file
  /\ pre' = file
  /\ last' = [labels |-> labels, pc |-> pc]
  /\ joined' = <<>>
  /\ text' = <<>>
  /\ face_ids' = <<>>
  /\ err' = ""
  /\ opens' = 0
  /\ steps' = <<"read">>
  /\ pc' = IF script = "cross_assembly" THEN "shell" ELSE "join"
  /\ UNCHANGED <<cvars, fvars, mvars, rvars>>
  /\ UNCHANGED <<file, script>>

\* joined[-1] += line
JoinLines ==
  /\ pc = "join"
  /\ script \in LineJoinScripts
  /\ joined' = JoinContinuation(raw)
  /\ pc' = "shell"
  /\ steps' = Append(steps, "join")
  /\ UNCHANGED <<cvars, fvars, mvars, rvars>>
  /\ UNCHANGED <<file, script, calls, labels, raw, text, face_ids, err, opens,
                 pre, last>>

\* text = re.sub(r"\n\s+", " ", raw)
JoinCollapse ==
  /\ pc = "join"
  /\ script \in CollapseScripts \cup {"coffee_mug"}
  /\ text' = Collapse(raw)
  /\ pc' = "shell"
  /\ steps' = Append(steps, "join")
  /\ UNCHANGED <<cvars, fvars, mvars, rvars>>
  /\ UNCHANGED <<file, script, calls, labels, raw, joined, face_ids, err, opens,
                 pre, last>>

\* the shell lookup of each script: the ids found, and how the lookup ends
\* ("" when the script goes on to the count check)
ShellLookup ==
  CASE script \in {"cylinder", "l_bracket"} ->
         [ids |-> FirstShellRefs(joined),
          err |-> IF ShellEids(joined) # <<>> THEN ""
                  ELSE IF script = "cylinder" THEN "UnboundLocalError"
                  ELSE "ShellNotFound",
          end |-> "fatal"]
    [] script = "crankset" ->
         [ids |-> AllShellRefs(joined),
          err |-> IF AllShellRefs(joined) # <<>> THEN "" ELSE "ShellNotFound",
          end |-> "fatal"]
    [] script \in CollapseScripts ->
         [ids |-> SearchedShellRefs(text),
          err |-> IF ShellSearch(text, 1).close # 0 THEN "" ELSE "ShellNotFound",
          end |-> "fatal"]
    [] script = "coffee_mug" ->
         [ids |-> SearchedShellRefs(text),
          err |-> IF ShellSearch(text, 1).close # 0 THEN "" ELSE "ShellNotFound",
          end |-> "returned"]
    [] script = "cross_assembly" ->
         [ids |-> FindAllShellRefs(raw, 1), err |-> "", end |-> "fatal"]

FindShell ==
  /\ pc = "shell"
  /\ steps' = Append(steps, "shell")
  /\ LET r == ShellLookup
     IN IF r.err = ""
        THEN /\ face_ids' = r.ids
             /\ pc' = "count"
             /\ err' = err
        ELSE /\ face_ids' = face_ids
             /\ pc' = r.end
             /\ err' = r.err
  /\ UNCHANGED <<cvars, fvars, mvars, rvars>>
  /\ UNCHANGED <<file, script, calls, labels, raw, joined, text, opens, pre, last>>

\* where a call whose counts differ goes: "fatal" (assert, raise),
\* "returned" (print and return) or "subst" (print a warning and go on)
OnMismatch ==
  CASE script \in LineJoinScripts \cup CollapseScripts -> "fatal"
    [] script = "coffee_mug" -> "returned"
    [] script = "cross_assembly" -> "subst"

\* assert len(face_eids) == len(face_labels)
CountCheck ==
  /\ pc = "count"
  /\ steps' = Append(steps, "count")
  /\ IF Len(face_ids) = Len(labels)
     THEN pc' = "subst" /\ err' = err
     ELSE pc' = OnMismatch /\ err' = "FaceCountMismatch"
  /\ UNCHANGED <<cvars, fvars, mvars, rvars>>
  /\ UNCHANGED <<file, script, calls, labels, raw, joined, text, face_ids, opens,
                 pre, last>>

\* for idx, eid in enumerate(face_eids): joined[line_idx] = re.sub(...)
SubstituteLines ==
  /\ pc = "subst"
  /\ script \in LineJoinScripts
  /\ steps' = Append(steps, "subst")
  /\ LET r == WriteLoop(joined, face_ids, labels, 1)
     IN /\ joined' = r.joined
        /\ IF r.err = "" THEN pc' = "write" /\ err' = err
                         ELSE pc' = "fatal" /\ err' = r.err
  /\ UNCHANGED <<cvars, fvars, mvars, rvars>>
  /\ UNCHANGED <<file, script, calls, labels, raw, text, face_ids, opens, pre, last>>

\* for fid, label in zip(face_ids, labels): text = re.sub(pattern, replacement, text)
SubstituteText ==
  /\ pc = "subst"
  /\ script \notin LineJoinScripts
  /\ steps' = Append(steps, "subst")
  /\ IF script \in CollapseScripts
     THEN text' = ZipSub(text, face_ids, labels, FALSE) /\ raw' = raw
     ELSE raw' = ZipSub(raw, face_ids, labels, script = "coffee_mug") /\ text' = text
  /\ pc' = "write"
  /\ UNCHANGED <<cvars, fvars, mvars, rvars>>
  /\ UNCHANGED <<file, script, calls, labels, joined, face_ids, err, opens, pre, last>>

\* an output that ends with one more line break than the text has
OutputWithNewline ==
  CASE script \in LineJoinScripts -> JoinNL(joined) \o <<NL>>
    [] script \in CollapseScripts -> text \o <<NL>>
    [] OTHER -> raw \o <<NL>>

\* what each script hands to f.write
Output ==
  CASE script \in LineJoinScripts -> JoinNL(joined)
    [] script \in CollapseScripts -> text
    [] OTHER -> raw

\* with open(filepath, 'w') as f: f.write(...)
Write ==
  /\ pc = "write"
  /\ opens' = opens + 1
  /\ steps' = Append(steps, "write")
  /\ file' = Output
  /\ pc' = "done"
  /\ UNCHANGED <<cvars, fvars, mvars, rvars>>
  /\ UNCHANGED <<script, calls, labels, raw, joined, text, face_ids, err, pre, last>>

Next ==
  \/ \E ls \in LabelSeqs : Call(ls)
  \/ JoinLines
  \/ JoinCollapse
  \/ FindShell
  \/ CountCheck
  \/ SubstituteLines
  \/ SubstituteText
  \/ Write

Spec == Init /\ [][Next]_vars

(***************************************************************************)
(* classify_faces.  A face is the record of what the kernel answers for    *)
(* it: the surface type, the radius r, the centroid (cx, cy, cz), the      *)
(* centroid in polar form (rc = sqrt(cx^2 + cy^2), ang = atan2(cy, cx) in  *)
(* degrees mod 360), the plane normal (nx, ny, nz) and the cylinder axis   *)
(* (dx, dy, dz).  Numbers are integers in a unit fixed per script.         *)
(***************************************************************************)
\* longest face sequence handed to classify_faces
MaxFaces == 3

Abs(x) == IF x < 0 THEN -x ELSE x

ZeroFace ==
  [stype |-> "Other", r |-> 0, cx |-> 0, cy |-> 0, cz |-> 0, rc |-> 0, ang |-> 0,
   nx |-> 0, ny |-> 0, nz |-> 0, dx |-> 0, dy |-> 0, dz |-> 0, az |-> 0]

\* f"{n:02d}"
Fmt02(n) == IF n < 10 THEN "0" \o ToString(n) ELSE ToString(n)

Pow10(d) == IF d = 0 THEN 1 ELSE IF d = 1 THEN 10 ELSE 100

\* f"{x:.<d>f}" for x given in units of 1/u, d <= 2 (ties to the even digit)
Fixed(x, u, d) ==
  LET scaled == Abs(x) * Pow10(d)
      q0 == scaled \div u
      rem == scaled % u
      q == IF 2 * rem > u \/ (2 * rem = u /\ q0 % 2 = 1) THEN q0 + 1 ELSE q0
      frac == q % Pow10(d)
  IN (IF x < 0 THEN "-" ELSE "") \o ToString(q \div Pow10(d)) \o "."
     \o (IF d = 2 THEN Fmt02(frac) ELSE ToString(frac))

(***************************************************************************)
(* build_cylinder.py: lengths in 1/100 mm, angles in 1/100 degree, normal  *)
(* components in 1/100.                                                    *)
(***************************************************************************)
cyl_radius == 500
cyl_height == 5000
n_teeth == 16
spline_depth == 3000
through_bore_r == 250
channel_width == 150
channel_depth == 50
channel_offset == 1000
channel_floor_r == cyl_radius - channel_depth
ch_bot_z == channel_offset
ch_top_z == cyl_height - channel_offset - channel_width

\* the body of the loop of classify_faces: the label of one face
\* the groove index without the half step added to the angle
GrooveIndexNoHalfStep(ang) == (((ang * n_teeth) \div 36000) % n_teeth) + 1

\* int((ang + 180.0 / n_teeth) / (360.0 / n_teeth)) % n_teeth + 1
GrooveIndex(ang) == (((ang * n_teeth + 18000) \div 36000) % n_teeth) + 1

CylinderLabel(f) ==
  CASE f.stype = "Cylinder" ->
         IF Abs(f.r - cyl_radius) < 10 THEN "cylinder"
         ELSE IF Abs(f.r - through_bore_r) < 10 THEN "bore.wall"
         ELSE IF Abs(f.r - channel_floor_r) < 20
              THEN (IF f.cz < 2500 THEN "channel.bottom.floor"
                    ELSE "channel.top.floor")
         ELSE "?"
    [] f.stype = "Cone" ->
         IF f.cz > 2500 THEN "chamfer.top" ELSE "chamfer.bottom"
    [] f.stype = "Torus" ->
         IF f.cz < 2500 THEN "channel.bottom.fillet" ELSE "channel.top.fillet"
    [] f.stype = "BSplineSurface" ->
         \* 2 * ch_mid = 2 * ch_z + channel_width
         IF f.rc > 400 /\ Abs(2 * f.cz - (2 * ch_bot_z + channel_width)) < 400
         THEN "channel.bottom.fillet"
         ELSE IF f.rc > 400 /\ Abs(2 * f.cz - (2 * ch_top_z + channel_width)) < 400
         THEN "channel.top.fillet"
         ELSE "?"
    [] f.stype = "Plane" ->
         IF Abs(f.nz) > 90
         THEN IF Abs(f.cz) < 20 THEN "bottom"
              ELSE IF Abs(f.cz - cyl_height) < 20 THEN "top"
              ELSE IF Abs(f.cz - (cyl_height - spline_depth)) < 50
                   THEN "spline.root_" \o Fmt02(GrooveIndex(f.ang))
              ELSE IF Abs(f.cz - ch_bot_z) < 20 THEN "channel.bottom.wall_lower"
              ELSE IF Abs(f.cz - (ch_bot_z + channel_width)) < 20
                   THEN "channel.bottom.wall_upper"
              ELSE IF Abs(f.cz - ch_top_z) < 20 THEN "channel.top.wall_lower"
              ELSE IF Abs(f.cz - (ch_top_z + channel_width)) < 20
                   THEN "channel.top.wall_upper"
              ELSE "?"
         ELSE "spline.tooth_" \o Fmt02(((f.ang * n_teeth) \div 36000) + 1) \o "."
              \o (IF (f.ang * n_teeth) % 36000 < 18000 THEN "r" ELSE "l")
    [] OTHER -> "?"

CylFace(stype, r, rc, ang, cz, nz) ==
  [ZeroFace EXCEPT !.stype = stype, !.r = r, !.rc = rc, !.ang = ang, !.cz = cz,
                   !.nz = nz]

\* faces of the cylinder part, and two that match no rule
CylinderFaces ==
  { CylFace("Cylinder", 500, 0, 0, 2500, 0),
    CylFace("Cylinder", 252, 0, 0, 2500, 0),
    CylFace("Cylinder", 450, 0, 0, 1075, 0),
    CylFace("Cylinder", 300, 0, 0, 3500, 0),
    CylFace("Cone", 0, 0, 0, 4900, 0),
    CylFace("Torus", 0, 0, 0, 1000, 0),
    CylFace("BSplineSurface", 0, 450, 0, 3925, 0),
    CylFace("Plane", 0, 0, 0, 0, -100),
    CylFace("Plane", 0, 0, 0, 5005, 100),
    CylFace("Plane", 0, 275, 35000, 2000, 100),
    CylFace("Plane", 0, 275, 3000, 3500, 0),
    CylFace("Other", 0, 0, 0, 2500, 0) }

(***************************************************************************)
(* showerhead_tee/build_showerhead_tee.py: dimensions in 1/1000 inch, IN   *)
(* turns them into 1/10000 mm; axis components in 1/10, normal components  *)
(* in 1/100.                                                               *)
(***************************************************************************)
\* IN = 25.4 (IN is a reserved word here)
IN_mm == 254
rim_dia == 1180
rim_r == rim_dia \div 2
base_dia == 490
base_r == base_dia \div 2
bore_dia == 350
bore_r == bore_dia \div 2
flange_len == 500
block_w == 1180
block_h == 2590
block_d == 2180
block_y_bot == -2000
block_y_top == block_y_bot + block_h
half_d == 1590
half_w == block_w \div 2
block_x_ctr == half_d - block_d \div 2
fillet_r == 250
cbore_dia == 490
cbore_r == cbore_dia \div 2
cbore_depth == 100

bore_rmm == bore_r * IN_mm
rim_rmm == rim_r * IN_mm
base_rmm == base_r * IN_mm
\* tol = 0.5 mm
tol == 5000
bx_max == half_d * IN_mm
by_top == block_y_top * IN_mm
by_bot == block_y_bot * IN_mm
fl == flange_len * IN_mm
fillet_rmm == fillet_r * IN_mm
cbore_rmm == cbore_r * IN_mm
cbore_dmm == cbore_depth * IN_mm
top_front == (block_y_top + flange_len) * IN_mm
bot_front == (block_y_bot - flange_len) * IN_mm
side_front == (half_d + flange_len) * IN_mm
top_cb_y == (block_y_top + flange_len - cbore_depth) * IN_mm
bot_cb_y == (block_y_bot - flange_len + cbore_depth) * IN_mm
side_cb_x == (half_d + flange_len - cbore_depth) * IN_mm
\* cb_tol = 1.0 mm
cb_tol == 10000

\* flange_cyl_n = flange_cone_n = ... = fillet_n = 0
ZeroCounters ==
  [flange_cyl_n |-> 0, flange_cone_n |-> 0, flange_planar_n |-> 0,
   cbore_cyl_n |-> 0, cbore_planar_n |-> 0, fillet_n |-> 0]

\* name += 1; label = f"{prefix}{name}"
Numbered(c, name, prefix) ==
  [label |-> prefix \o ToString(c[name] + 1),
   counters |-> [c EXCEPT ![name] = @ + 1]]

Plain(c, label) == [label |-> label, counters |-> c]

\* abs(c - front) < cbore_dmm * 1.5
NearFront(f) ==
  \/ 2 * Abs(f.cy - top_front) < 3 * cbore_dmm
  \/ 2 * Abs(f.cy - bot_front) < 3 * cbore_dmm
  \/ 2 * Abs(f.cx - side_front) < 3 * cbore_dmm

\* abs(a) < cbore_rmm * 1.5 and abs(b) < cbore_rmm * 1.5
InCounterbore(a, b) ==
  2 * Abs(a) < 3 * cbore_rmm /\ 2 * Abs(b) < 3 * cbore_rmm

\* the body of the loop of classify_faces: the label of one face and the
\* counters after it
ShowerheadLabel(f, c) ==
  CASE f.stype = "Cylinder" ->
         IF Abs(f.r - bore_rmm) < tol
         THEN (IF Abs(f.dy) > 9 THEN Plain(c, "y_bore")
               ELSE IF Abs(f.dx) > 9 THEN Plain(c, "cross_bore")
               ELSE Plain(c, "bore_(" \o Fixed(f.dx, 10, 1) \o ","
                             \o Fixed(f.dy, 10, 1) \o ","
                             \o Fixed(f.dz, 10, 1) \o ")"))
         ELSE IF /\ Abs(f.r - fillet_rmm) < tol
                 /\ 2 * f.cx > bx_max
                 /\ \/ Abs(f.cy - by_top) < fillet_rmm * 2
                    \/ Abs(f.cy - by_bot) < fillet_rmm * 2
         THEN Numbered(c, "fillet_n",
                       IF f.cy > 0 THEN "fillet.cross_top_"
                       ELSE "fillet.cross_bottom_")
         ELSE IF Abs(f.r - rim_rmm) < tol
         THEN Numbered(c, "flange_cyl_n", "kf_flange.cylindrical_")
         ELSE IF Abs(f.r - base_rmm) < tol
         THEN (IF NearFront(f)
               THEN Numbered(c, "cbore_cyl_n", "counterbore.wall_")
               ELSE Numbered(c, "flange_cyl_n", "kf_flange.cylindrical_"))
         ELSE Plain(c, "cyl_r" \o Fixed(f.r, 10000, 2))
    [] f.stype = "Cone" -> Numbered(c, "flange_cone_n", "kf_flange.conical_")
    [] f.stype = "BSplineSurface" ->
         Numbered(c, "fillet_n",
                  IF f.cy > 0 THEN "fillet.cross_top_" ELSE "fillet.cross_bottom_")
    [] f.stype = "Plane" ->
         IF Abs(f.nx) > 90
         THEN (IF Abs(f.cx - side_cb_x) < cb_tol /\ InCounterbore(f.cy, f.cz)
               THEN Numbered(c, "cbore_planar_n", "counterbore.bottom_")
               ELSE IF 10 * f.cx > 10 * bx_max + 3 * fl
               THEN Numbered(c, "flange_planar_n", "kf_flange.planar_")
               ELSE IF f.cx > 0 THEN Plain(c, "block_cross")
               ELSE Plain(c, "block_back"))
         ELSE IF Abs(f.ny) > 90
         THEN (IF Abs(f.cy - top_cb_y) < cb_tol /\ InCounterbore(f.cx, f.cz)
               THEN Numbered(c, "cbore_planar_n", "counterbore.bottom_")
               ELSE IF Abs(f.cy - bot_cb_y) < cb_tol /\ InCounterbore(f.cx, f.cz)
               THEN Numbered(c, "cbore_planar_n", "counterbore.bottom_")
               ELSE IF \/ 10 * f.cy > 10 * by_top + 3 * fl
                       \/ 10 * f.cy < 10 * by_bot - 3 * fl
               THEN Numbered(c, "flange_planar_n", "kf_flange.planar_")
               ELSE IF f.cy > 0 THEN Plain(c, "block_top")
               ELSE Plain(c, "block_bottom"))
         ELSE IF Abs(f.nz) > 90
         THEN (IF f.cz > 0 THEN Plain(c, "block_left") ELSE Plain(c, "block_right"))
         ELSE Plain(c, "planar_n(" \o Fixed(f.nx, 100, 2) \o ","
                       \o Fixed(f.ny, 100, 2) \o "," \o Fixed(f.nz, 100, 2) \o ")")
    [] OTHER -> Plain(c, "type_" \o f.stype)

\* the positions of the label l in ls, ascending
IndicesOf(ls, l) ==
  LET hit == {i \in 1..Len(ls) : ls[i] = l}
  IN [k \in 1..Cardinality(hit) |->
        CHOOSE i \in hit : Cardinality({j \in hit : j <= i}) = k]

\* a second pass that renames the first of the two faces, wherever it lies
SecondPassFirst(fs, ls) ==
  LET ybore_indices == IndicesOf(ls, "y_bore")
  IN IF Len(ybore_indices) = 2
     THEN [ls EXCEPT ![ybore_indices[1]] = "y_bore_bottom"]
     ELSE ls

\* a second pass that renames the first of two faces of equal height (not the
\* code)
SecondPassTieFirst(fs, ls) ==
  LET ybore_indices == IndicesOf(ls, "y_bore")
  IN IF Len(ybore_indices) = 2
     THEN LET lower == IF fs[ybore_indices[1]].cy <= fs[ybore_indices[2]].cy
                       THEN ybore_indices[1] ELSE ybore_indices[2]
          IN [ls EXCEPT ![lower] = "y_bore_bottom"]
     ELSE ls

\* second pass: if y_bore got split into two faces, rename the lower one
SecondPass(fs, ls) ==
  LET ybore_indices == IndicesOf(ls, "y_bore")
  IN IF Len(ybore_indices) = 2
     THEN LET lower == IF fs[ybore_indices[1]].cy < fs[ybore_indices[2]].cy
                       THEN ybore_indices[1] ELSE ybore_indices[2]
          IN [ls EXCEPT ![lower] = "y_bore_bottom"]
     ELSE ls

ShFace(stype, r, cx, cy, cz, n, d) ==
  [ZeroFace EXCEPT !.stype = stype, !.r = r, !.cx = cx, !.cy = cy, !.cz = cz,
                   !.nx = n[1], !.ny = n[2], !.nz = n[3],
                   !.dx = d[1], !.dy = d[2], !.dz = d[3]]

\* faces of the showerhead tee, and two that match no rule
ShowerheadFaces ==
  { ShFace("Cylinder", 44450, 0, 200000, 0, <<0, 0, 0>>, <<0, 10, 0>>),
    ShFace("Cylinder", 44450, 0, -300000, 0, <<0, 0, 0>>, <<0, -10, 0>>),
    ShFace("Cylinder", 44450, 300000, 0, 0, <<0, 0, 0>>, <<10, 0, 0>>),
    ShFace("Cylinder", 63500, 400000, 120000, 0, <<0, 0, 0>>, <<0, 0, 10>>),
    ShFace("Cylinder", 149860, 0, 250000, 0, <<0, 0, 0>>, <<0, 10, 0>>),
    ShFace("Cylinder", 62230, 0, 264160, 0, <<0, 0, 0>>, <<0, 10, 0>>),
    ShFace("Cylinder", 100000, 0, 0, 0, <<0, 0, 0>>, <<0, 0, 10>>),
    ShFace("Cone", 0, 0, 200000, 0, <<0, 0, 0>>, <<0, 0, 0>>),
    ShFace("BSplineSurface", 0, 400000, -500000, 0, <<0, 0, 0>>, <<0, 0, 0>>),
    ShFace("Plane", 0, -150000, 0, 0, <<-100, 0, 0>>, <<0, 0, 0>>),
    ShFace("Plane", 0, 0, 276860, 0, <<0, 100, 0>>, <<0, 0, 0>>),
    ShFace("Plane", 0, 0, 0, 149860, <<0, 0, 100>>, <<0, 0, 0>>),
    ShFace("Other", 0, 0, 0, 0, <<0, 0, 0>>, <<0, 0, 0>>) }

(***************************************************************************)
(* classify_faces as a state machine: the loop over the faces, then the    *)
(* return (showerhead_tee: the second pass, then the return).              *)
(***************************************************************************)
Parts == {"cylinder", "showerhead_tee"}

\* classify_faces calls in one run of the model
MaxClassifyCalls == 2

FacesOf(p) == IF p = "cylinder" THEN CylinderFaces ELSE ShowerheadFaces

\* write_labels at rest while classify_faces runs
WriteIdle ==
  /\ file = <<>>
  /\ script = "none"
  /\ pc = "off"
  /\ calls = 0
  /\ labels = <<>>
  /\ raw = <<>>
  /\ joined = <<>>
  /\ text = <<>>
  /\ face_ids = <<>>
  /\ err = ""
  /\ opens = 0
  /\ steps = <<>>
  /\ pre = <<>>
  /\ last = [labels |-> <<>>, pc |-> "off"]

\* labels = []; the counters start at 0
ClassifyInit ==
  /\ WriteIdle
  /\ FaceIdle
  /\ MainIdle
  /\ RenderIdle
  /\ part \in Parts
  /\ faces \in SeqsUpTo(FacesOf(part), MaxFaces)
  /\ class_labels = <<>>
  /\ counters = ZeroCounters
  /\ cpc = "loop"
  /\ earlier = <<>>

\* what one turn of the loop computes for the face f
Classified(p, f, c) ==
  IF p = "cylinder" THEN Plain(c, CylinderLabel(f)) ELSE ShowerheadLabel(f, c)

\* for face in occ_faces: ...; labels.append(label)
ClassifyFace ==
  /\ cpc = "loop"
  /\ Len(class_labels) < Len(faces)
  /\ LET r == Classified(part, faces[Len(class_labels) + 1], counters)
     IN /\ class_labels' = Append(class_labels, r.label)
        /\ counters' = r.counters
  /\ UNCHANGED <<part, faces, cpc, earlier>>
  /\ UNCHANGED <<wvars, fvars, mvars, rvars>>

\* return labels, after the second pass where the script has one
Return ==
  /\ cpc = "loop"
  /\ Len(class_labels) = Len(faces)
  /\ class_labels' = IF part = "showerhead_tee"
                     THEN SecondPass(faces, class_labels)
                     ELSE class_labels
  /\ cpc' = "returned"
  /\ UNCHANGED <<part, faces, counters, earlier>>
  /\ UNCHANGED <<wvars, fvars, mvars, rvars>>

\* a further call that carries the counters of the call before over (not the
\* code)
ClassifyAgainKeepingCounters ==
  /\ cpc = "returned"
  /\ Len(earlier) + 1 < MaxClassifyCalls
  /\ earlier' = Append(earlier, class_labels)
  /\ class_labels' = <<>>
  /\ cpc' = "loop"
  /\ UNCHANGED <<part, faces, counters>>
  /\ UNCHANGED <<wvars, fvars, mvars, rvars>>

\* a further classify_faces call on the same faces: labels = [] and the
\* counters are set to 0 at the head of the function
ClassifyAgain ==
  /\ cpc = "returned"
  /\ Len(earlier) + 1 < MaxClassifyCalls
  /\ earlier' = Append(earlier, class_labels)
  /\ class_labels' = <<>>
  /\ counters' = ZeroCounters
  /\ cpc' = "loop"
  /\ UNCHANGED <<part, faces>>
  /\ UNCHANGED <<wvars, fvars, mvars, rvars>>

ClassifyNext ==
  \/ ClassifyFace
  \/ Return
  \/ ClassifyAgain

ClassifySpec == ClassifyInit /\ [][ClassifyNext]_vars

(***************************************************************************)
(* Sector indices and sides.  Angles are in 1/100 degree, lengths in       *)
(* 1/100 mm; the centroid is given by its distance rc from the axis and    *)
(* its angle ang = degrees(atan2(cy, cx)) % 360.                           *)
(***************************************************************************)
\* rounding that takes a tie up (not Python's round)
RoundHalfUp(n, d) == (2 * n + d) \div (2 * d)

\* round(n / d), Python's round: a tie goes to the even neighbour
RoundHalfEven(n, d) ==
  LET q == n \div d
      r == n % d
  IN IF 2 * r > d \/ (2 * r = d /\ q % 2 = 1) THEN q + 1 ELSE q

\* the sector index with int() in the place of round()
SectorIndexTruncating(ang, n) == ((ang * n) \div 36000) % n

\* si = round(angle / spoke_angle_deg) % n_spokes, spoke_angle_deg = 360.0 / n
SectorIndex(ang, n) == RoundHalfEven(ang * n, 36000) % n

\* the hub index without the half sector taken off (not the code)
HubIndexNoHalf(ang, n) == RoundHalfEven(ang * n, 36000) % n

\* wi = round(angle / spoke_angle_deg - 0.5) % n_spokes
HubIndex(ang, n) == RoundHalfEven(2 * ang * n - 36000, 72000) % n

\* the sign of cross = cos(spoke_a) * cy - sin(spoke_a) * cx for the centroid
\* (rc, ang) and spoke_a = a: the cross product is rc * sin(ang - a)
CrossSign(rc, ang, a) ==
  LET d == (ang - a) % 36000
  IN IF rc = 0 \/ d = 0 \/ d = 18000 THEN 0
     ELSE IF d < 18000 THEN 1 ELSE -1

\* the side with cross >= 0 in the place of cross > 0
SideZeroLeft(rc, ang, a) == IF CrossSign(rc, ang, a) >= 0 THEN "left" ELSE "right"

\* side = "left" if cross > 0 else "right"
Side(rc, ang, a) == IF CrossSign(rc, ang, a) > 0 THEN "left" ELSE "right"

Lab(l) == [label |-> l, index |-> -1]

\* f"{prefix}{si+1:02d}{suffix}"
LabIdx(prefix, si, suffix) ==
  [label |-> prefix \o Fmt02(si + 1) \o suffix, index |-> si]

(***************************************************************************)
(* disc/build_disc.py                                                      *)
(***************************************************************************)
disc_diameter == 20000
disc_radius == disc_diameter \div 2
disc_height == 2000
bot_flat_dia == 2000
bot_flat_r == bot_flat_dia \div 2
rim_height == 300
center_bore_dia == 500
center_bore_r == center_bore_dia \div 2
hub_dia == 3000
hub_r == hub_dia \div 2
n_spokes == 5

\* the body of the loop of classify_faces
DiscLabel(f) ==
  CASE f.stype = "Plane" ->
         IF Abs(f.cz - disc_height) < 1 THEN Lab("top")
         ELSE IF Abs(f.cz - rim_height) < 10
         THEN LabIdx("top_shelf_", SectorIndex(f.ang, n_spokes), "")
         ELSE IF Abs(f.cz) < 1 /\ f.rc < bot_flat_r + 100 THEN Lab("bottom")
         ELSE IF Abs(f.cz) < 1
         THEN LabIdx("bottom_shelf_", SectorIndex(f.ang, n_spokes), "")
         ELSE LET si == SectorIndex(f.ang, n_spokes)
              IN LabIdx("spoke_", si,
                        "." \o Side(f.rc, f.ang, si * (36000 \div n_spokes)))
    [] f.stype = "Cylinder" ->
         IF Abs(f.r - disc_radius) < 10
         THEN LabIdx("rim_", SectorIndex(f.ang, n_spokes), "")
         ELSE IF Abs(f.r - hub_r) < 10
         THEN LabIdx("hub_", HubIndex(f.ang, n_spokes), "")
         ELSE IF Abs(f.r - center_bore_r) < 10 THEN Lab("bore")
         ELSE IF Abs(f.r - bot_flat_r) < 10 THEN Lab("recess_wall")
         ELSE Lab("cyl_r" \o Fixed(f.r, 100, 1))
    [] f.stype = "Cone" ->
         IF 2 * f.cz > disc_height THEN Lab("top_taper") ELSE Lab("bottom_taper")
    [] OTHER -> Lab("?")

(***************************************************************************)
(* spoke_v2/build_spoke_v2.py (its names carry the prefix v2_ here)        *)
(***************************************************************************)
v2_diameter == 20000
v2_radius == v2_diameter \div 2
v2_thickness == 2000
v2_rim_step_height == 300
v2_bot_flat_dia == 2000
v2_bot_flat_r == v2_bot_flat_dia \div 2
v2_n_spokes == 3
v2_hub_dia == 3500
v2_hub_r == v2_hub_dia \div 2

\* the body of the loop of classify_faces
SpokeLabel(f) ==
  CASE f.stype = "Plane" ->
         IF Abs(f.cz) < 1 /\ f.rc < v2_bot_flat_r + 100 THEN Lab("bottom")
         ELSE IF Abs(f.cz) < 1
         THEN LabIdx("bottom_ring_", SectorIndex(f.ang, v2_n_spokes), "")
         ELSE IF Abs(f.cz - v2_thickness) < 1 THEN Lab("top")
         ELSE IF Abs(f.cz - v2_rim_step_height) < 10
         THEN LabIdx("rim_step_", SectorIndex(f.ang, v2_n_spokes), "")
         ELSE LET si == SectorIndex(f.ang, v2_n_spokes)
              IN LabIdx("spoke_", si,
                        "." \o Side(f.rc, f.ang, si * (36000 \div v2_n_spokes)))
    [] f.stype = "Cylinder" ->
         IF Abs(f.r - v2_radius) < 10
         THEN LabIdx("rim_", SectorIndex(f.ang, v2_n_spokes), "")
         ELSE IF Abs(f.r - v2_hub_r) < 10
         THEN LabIdx("hub_", HubIndex(f.ang, v2_n_spokes), "")
         ELSE IF Abs(f.r - v2_bot_flat_r) < 10 THEN Lab("recess_wall")
         ELSE Lab("cyl_r" \o Fixed(f.r, 100, 1))
    [] f.stype = "Cone" ->
         IF f.az > v2_thickness THEN Lab("top_taper") ELSE Lab("bottom_taper")
    [] OTHER -> Lab("?")

(***************************************************************************)
(* crankset/build_crankset.py: _nearest_arm_index                          *)
(***************************************************************************)
n_arms == 5
arm_angular_spacing == 36000 \div n_arms
crank_arm_angle == 0

\* arm_angles[i] = (crank_arm_angle + i * arm_angular_spacing) % 360
ArmAngle(i) == (crank_arm_angle + i * arm_angular_spacing) % 36000

\* the difference without the turn at 180 degrees (not the code)
ArmDiffNoWrap(angle_deg, i) == Abs(angle_deg - ArmAngle(i))

\* diff = abs(angle_deg - aa); if diff > 180: diff = 360 - diff
ArmDiff(angle_deg, i) ==
  LET diff == Abs(angle_deg - ArmAngle(i))
  IN IF diff > 18000 THEN 36000 - diff ELSE diff

\* the first index whose diff is below every diff before it and not above any
\* after it (min_diff starts at 999, diff < min_diff keeps the earlier on a tie)
NearestArmIndex(angle_deg) ==
  CHOOSE best \in 0..(n_arms - 1) :
    /\ \A i \in 0..(best - 1) : ArmDiff(angle_deg, i) > ArmDiff(angle_deg, best)
    /\ \A i \in (best + 1)..(n_arms - 1) :
         ArmDiff(angle_deg, i) >= ArmDiff(angle_deg, best)

(***************************************************************************)
(* crankset/build_crankset.py: the rules of classify_faces for planar      *)
(* faces, and for faces of a surface kind the rules have no branch for.    *)
(***************************************************************************)
bcd == 14400
bcd_r == bcd \div 2
spider_od == 16000
spider_od_r == spider_od \div 2
hub_od == 4000
hub_od_r == hub_od \div 2
hub_height == 2000
axle_bore_dia == 2000
axle_bore_r == axle_bore_dia \div 2
axle_bore_depth == 500
taper_wide == 1265
bolt_cbore_dia == 1200
bolt_cbore_r == bolt_cbore_dia \div 2
bolt_cbore_depth == 100
crank_arm_width == 2400
pedal_boss_z_face == 3000
pedal_boss_thickness == 1000
boss_z_ext_bot == 50
back_cut_depth == 1200
chainring_pocket_floor_z == 300

\* f"{x:.0f}" for x given in units of 1/u (ties to the even integer)
Fixed0(x, u) ==
  (IF x < 0 THEN "-" ELSE "") \o ToString(RoundHalfEven(Abs(x), u))

\* the surface kinds classify_faces has a branch for
CranksetKinds ==
  {"Cylinder", "Cone", "Torus", "SurfaceOfRevolution", "BSplineSurface", "Plane"}

CranksetLabel(f) ==
  CASE f.stype = "Plane" ->
         IF Abs(f.nz) > 90
         THEN IF f.cx < -(spider_od_r + 1000)
              THEN (IF Abs(f.cz - pedal_boss_z_face) < 50 THEN "pedal.face"
                    ELSE IF Abs(f.cz - (pedal_boss_z_face - pedal_boss_thickness
                                        - boss_z_ext_bot)) < 50
                    THEN "pedal.back"
                    ELSE "pedal.planar_z" \o Fixed0(f.cz, 100))
              ELSE IF /\ Abs(f.cz - bolt_cbore_depth) < 20
                      /\ Abs(f.rc - bcd_r) < bolt_cbore_r
              THEN "bolt.cbore_floor_" \o Fmt02(NearestArmIndex(f.ang) + 1)
              ELSE IF Abs(f.cz) < 10 THEN "back"
              ELSE IF Abs(f.cz - hub_height) < 10 THEN "front"
              ELSE IF /\ Abs(f.cz - (hub_height - axle_bore_depth)) < 20
                      /\ f.rc < axle_bore_r
              THEN "axle.bore_floor"
              ELSE IF Abs(f.cz - chainring_pocket_floor_z) < 20
              THEN "chainring.pocket_floor"
              ELSE IF Abs(f.cz - back_cut_depth) < 50 /\ f.rc > hub_od_r
              THEN "spider.back_shelf"
              ELSE "planar_z" \o Fixed0(f.cz, 100)
         ELSE IF f.rc < taper_wide /\ Abs(f.nz) < 10
              THEN (IF Abs(f.nx) > Abs(f.ny)
                    THEN (IF f.nx > 0 THEN "axle.taper_xp" ELSE "axle.taper_xn")
                    ELSE (IF f.ny > 0 THEN "axle.taper_yp" ELSE "axle.taper_yn"))
              ELSE IF f.cx < -(hub_od_r + 500) /\ Abs(f.cy) < crank_arm_width
              THEN (IF f.cy > 0 THEN "arm.side_right" ELSE "arm.side_left")
              ELSE "planar_vertical"
    [] f.stype \notin CranksetKinds -> "?"

\* a planar face: centroid (cx, cy, cz), also as (rc, ang), and normal n
PlaneFace(cx, cy, cz, rc, ang, n) ==
  [ZeroFace EXCEPT !.stype = "Plane", !.cx = cx, !.cy = cy, !.cz = cz,
                   !.rc = rc, !.ang = ang,
                   !.nx = n[1], !.ny = n[2], !.nz = n[3]]

\* planar faces of the crankset, three that match no specific rule, and a face
\* of a kind without a branch
CranksetFaces ==
  { PlaneFace(0, 0, 0, 0, 0, <<0, 0, -100>>),
    PlaneFace(0, 0, 2000, 0, 0, <<0, 0, 100>>),
    PlaneFace(-16500, 0, 3000, 16500, 18000, <<0, 0, 100>>),
    PlaneFace(-16500, 0, 2500, 16500, 18000, <<0, 0, 100>>),
    PlaneFace(7200, 0, 100, 7200, 0, <<0, 0, 100>>),
    PlaneFace(-8000, 1200, 2000, 8089, 17146, <<0, 100, 0>>),
    PlaneFace(5000, 0, 750, 5000, 0, <<0, 0, 100>>),
    PlaneFace(5000, 0, 1000, 5000, 0, <<100, 0, 0>>),
    [ZeroFace EXCEPT !.stype = "Other", !.cz = 1000] }

(***************************************************************************)
(* One face put to the rules of a classifier: the body of the loop of      *)
(* classify_faces, for centroid angles all around the axis and for         *)
(* heights and radii around the tolerances.                                *)
(***************************************************************************)
\* distance between neighbouring centroid angles tried, in 1/100 degree
AngleStep == 10
\* how far around a nominal height or radius the inputs reach, in 1/100 mm
Band == 30

Angles == {AngleStep * a : a \in 0..((36000 - 1) \div AngleStep)}

Around(x) == (x - Band)..(x + Band)

PolarFace(stype, r, rc, ang, cz) ==
  [ZeroFace EXCEPT !.stype = stype, !.r = r, !.rc = rc, !.ang = ang, !.cz = cz]

FaceScripts == {"cylinder", "disc", "spoke_v2", "crankset"}

FaceInputs(s) ==
  CASE s = "disc" ->
         {PolarFace("Plane", 0, 5000, a, z) :
            a \in Angles, z \in {rim_height, 0, disc_height \div 2}}
         \cup {PolarFace("Cylinder", r, 5000, a, disc_height \div 2) :
                 a \in Angles, r \in {disc_radius, hub_r}}
         \cup {PolarFace("Plane", 0, 0, 0, z) : z \in {0, disc_height}}
         \cup {PolarFace("Cylinder", r, 0, 0, 0) :
                 r \in {center_bore_r, bot_flat_r, 777}}
         \cup {PolarFace("Cone", 0, 0, 0, z) : z \in {500, 1500}}
         \cup {PolarFace("Other", 0, 0, 0, 0)}
    [] s = "spoke_v2" ->
         {PolarFace("Plane", 0, 5000, a, z) :
            a \in Angles, z \in {v2_rim_step_height, 0, v2_thickness \div 2}}
         \cup {PolarFace("Cylinder", r, 5000, a, v2_thickness \div 2) :
                 a \in Angles, r \in {v2_radius, v2_hub_r}}
         \cup {PolarFace("Plane", 0, 0, 0, z) : z \in {0, v2_thickness}}
         \cup {PolarFace("Cylinder", r, 0, 0, 0) : r \in {v2_bot_flat_r, 777}}
         \cup {[PolarFace("Cone", 0, 0, 0, 1000) EXCEPT !.az = z] : z \in {1300, 2500}}
         \cup {PolarFace("Other", 0, 0, 0, 0)}
    [] s = "cylinder" ->
         {CylFace("Plane", 0, 300, a, cyl_height - spline_depth, 100) : a \in Angles}
         \cup {CylFace("Plane", 0, 300, a, cyl_height \div 2, 0) : a \in Angles}
         \cup {CylFace("Plane", 0, 0, 0, z, n) :
                 z \in Around(0) \cup Around(cyl_height), n \in {100, 95, 90, 0}}
         \cup {CylFace("Cylinder", r, 0, 0, z, 0) :
                 r \in Around(through_bore_r) \cup Around(channel_floor_r)
                       \cup Around(cyl_radius),
                 z \in {0, cyl_height \div 2, cyl_height}}
    [] s = "crankset" -> {PolarFace("Cylinder", 0, 0, a, 0) : a \in Angles}

\* the groove index of a face the rules label spline.root_NN, -1 for any other
CylinderIndex(f) ==
  IF CylinderLabel(f) = "spline.root_" \o Fmt02(GrooveIndex(f.ang))
  THEN GrooveIndex(f.ang) ELSE -1

\* the loop body with the cylinder's bore band closed: <= 0.1 (not the code)
OneLabelClosedBand(s, f) ==
  CASE s = "disc" -> DiscLabel(f)
    [] s = "spoke_v2" -> SpokeLabel(f)
    [] s = "cylinder" ->
         IF f.stype = "Cylinder" /\ Abs(f.r - through_bore_r) = 10
         THEN [label |-> "bore.wall", index |-> -1]
         ELSE [label |-> CylinderLabel(f), index |-> CylinderIndex(f)]

\* the loop body with the cylinder's bore tolerance a tenth as wide
OneLabelTightTolerance(s, f) ==
  CASE s = "disc" -> DiscLabel(f)
    [] s = "spoke_v2" -> SpokeLabel(f)
    [] s = "cylinder" ->
         IF CylinderLabel(f) = "bore.wall" /\ Abs(f.r - through_bore_r) >= 1
         THEN [label |-> "?", index |-> -1]
         ELSE [label |-> CylinderLabel(f), index |-> CylinderIndex(f)]

\* the loop body with the cylinder's test for a horizontal face at nz > 0.99
OneLabelStrictNormal(s, f) ==
  CASE s = "disc" -> DiscLabel(f)
    [] s = "spoke_v2" -> SpokeLabel(f)
    [] s = "cylinder" ->
         LET g == IF f.stype = "Plane" /\ Abs(f.nz) <= 99
                  THEN [f EXCEPT !.nz = 0] ELSE f
         IN [label |-> CylinderLabel(g), index |-> CylinderIndex(g)]

\* the label and the index the loop body of the script s computes for f
OneLabel(s, f) ==
  CASE s = "disc" -> DiscLabel(f)
    [] s = "spoke_v2" -> SpokeLabel(f)
    [] s = "cylinder" -> [label |-> CylinderLabel(f), index |-> CylinderIndex(f)]

FaceInit ==
  /\ WriteIdle
  /\ ClassifyIdle
  /\ MainIdle
  /\ RenderIdle
  /\ fscript \in FaceScripts
  /\ face \in FaceInputs(fscript)
  /\ flabel = ""
  /\ index = -1
  /\ fpc = "face"

\* one turn of "for face in faces": the rules from the surface type on
ClassifyOne ==
  /\ fpc = "face"
  /\ fscript # "crankset"
  /\ flabel' = OneLabel(fscript, face).label
  /\ index' = OneLabel(fscript, face).index
  /\ fpc' = "labelled"
  /\ UNCHANGED <<fscript, face>>
  /\ UNCHANGED <<wvars, cvars, mvars, rvars>>

\* arm_idx = _nearest_arm_index(angle_deg)
NearestArm ==
  /\ fpc = "face"
  /\ fscript = "crankset"
  /\ index' = NearestArmIndex(face.ang)
  /\ fpc' = "labelled"
  /\ UNCHANGED <<fscript, face, flabel>>
  /\ UNCHANGED <<wvars, cvars, mvars, rvars>>

FaceNext ==
  \/ ClassifyOne
  \/ NearestArm

FaceSpec == FaceInit /\ [][FaceNext]_vars

(***************************************************************************)
(* The __main__ block of a build script: build, export, classify, write    *)
(* the labels, report.  build_cylinder.py and disc/build_disc.py classify  *)
(* the file they exported; crankset/build_crankset.py classifies the solid *)
(* it built.                                                               *)
(***************************************************************************)
MainScripts == {"cylinder", "disc", "crankset"}

\* faces build_geometry() can put on the solid
MainFaces(s) ==
  CASE s = "cylinder" -> CylinderFaces
    [] s = "disc" ->
         { PolarFace("Plane", 0, 0, 0, 0),
           PolarFace("Plane", 0, 0, 0, disc_height),
           PolarFace("Cylinder", disc_radius, 5000, 0, disc_height \div 2),
           PolarFace("Cylinder", 777, 0, 0, 0),
           PolarFace("Other", 0, 0, 0, 0) }
    [] s = "crankset" -> CranksetFaces

\* the label the loop of the script's classify_faces gives one face
MainLabel(s, f) ==
  CASE s = "cylinder" -> CylinderLabel(f)
    [] s = "disc" -> DiscLabel(f).label
    [] s = "crankset" -> CranksetLabel(f)

\* cq.importers.importStep(filepath).faces().vals() for a file exported from
\* a solid with faces fs: the same faces, or one of them split in two
Reimport(fs) ==
  {fs} \cup { SubSeq(fs, 1, k) \o SubSeq(fs, k, Len(fs)) : k \in 1..Len(fs) }

\* the scripts whose __main__ ends with the count of unlabeled faces
ReportsUnlabeled(s) == s \in {"cylinder", "crankset"}

MainInit ==
  /\ WriteIdle
  /\ ClassifyIdle
  /\ FaceIdle
  /\ RenderIdle
  /\ mscript \in MainScripts
  /\ solid \in SeqsUpTo(MainFaces(mscript), MaxFaces)
  /\ source = ""
  /\ mfaces = <<>>
  /\ mlabels = <<>>
  /\ unlabeled = -1
  /\ written = FALSE
  /\ mpc = "built"

\* cq.exporters.export(result, OUTPUT_PATH)
Export ==
  /\ mpc = "built"
  /\ mpc' = "exported"
  /\ UNCHANGED <<mscript, solid, source, mfaces, mlabels, unlabeled, written>>
  /\ UNCHANGED <<wvars, cvars, fvars, rvars>>

\* labels = classify_faces(result) in crankset, classify_faces(OUTPUT_PATH)
\* in the others
Classify ==
  /\ mpc = "exported"
  /\ source' = IF mscript = "crankset" THEN "solid" ELSE "file"
  /\ mfaces' \in IF mscript = "crankset" THEN {solid} ELSE Reimport(solid)
  /\ mlabels' = [i \in 1..Len(mfaces') |-> MainLabel(mscript, mfaces'[i])]
  /\ mpc' = "classified"
  /\ UNCHANGED <<mscript, solid, unlabeled, written>>
  /\ UNCHANGED <<wvars, cvars, fvars, rvars>>

\* write_labels(OUTPUT_PATH, labels): the file has one face per face of the
\* solid; a different number of labels ends the run
WriteLabels ==
  /\ mpc = "classified"
  /\ IF Len(mlabels) = Len(solid)
     THEN written' = TRUE /\ mpc' = "labelled"
     ELSE written' = FALSE /\ mpc' = "fatal"
  /\ UNCHANGED <<mscript, solid, source, mfaces, mlabels, unlabeled>>
  /\ UNCHANGED <<wvars, cvars, fvars, rvars>>

\* unlabeled = [l for l in labels if l == "?"], where the script has it
Summary ==
  /\ mpc = "labelled"
  /\ unlabeled' = IF ReportsUnlabeled(mscript)
                  THEN Cardinality({i \in 1..Len(mlabels) : mlabels[i] = "?"})
                  ELSE -1
  /\ mpc' = "done"
  /\ UNCHANGED <<mscript, solid, source, mfaces, mlabels, written>>
  /\ UNCHANGED <<wvars, cvars, fvars, rvars>>

MainNext ==
  \/ Export
  \/ Classify
  \/ WriteLabels
  \/ Summary

MainSpec == MainInit /\ [][MainNext]_vars

(***************************************************************************)
(* render_step.py: _merge_views.  A dict is a function from its keys; a    *)
(* vector is a tuple of hundredths, a zoom is in hundredths.               *)
(***************************************************************************)
MaxMerges == 2

DEFAULT_VIEWS ==
  [iso     |-> [direction |-> <<100, 100, -60>>, up |-> <<0, 0, 100>>, zoom |-> 85],
   front   |-> [direction |-> <<0, 100, 0>>, up |-> <<0, 0, 100>>, zoom |-> 85],
   back    |-> [direction |-> <<0, -100, 0>>, up |-> <<0, 0, 100>>, zoom |-> 85],
   top     |-> [direction |-> <<0, 0, -100>>, up |-> <<0, -100, 0>>, zoom |-> 85],
   section |-> [direction |-> <<0, 100, 0>>, up |-> <<0, 0, 100>>, zoom |-> 85,
                normal |-> <<0, 100, 0>>, origin |-> <<0, 0, 0>>]]

VIEW_ORDER == <<"iso", "front", "back", "top", "section">>

EmptyDict == [k \in {} |-> 0]

\* base.update(o) done the other way round: keys of base win (not the code)
DictUpdateKeepingBase(base, o) ==
  [k \in DOMAIN base \cup DOMAIN o |-> IF k \in DOMAIN base THEN base[k] ELSE o[k]]

\* base.update(o)
DictUpdate(base, o) ==
  [k \in DOMAIN base \cup DOMAIN o |-> IF k \in DOMAIN o THEN o[k] ELSE base[k]]

\* dict(DEFAULT_VIEWS.get(name, {})): a new dict with the entries of the default
Base(dv, name) == IF name \in DOMAIN dv THEN dv[name] ELSE EmptyDict

\* "overrides and name in overrides"
Overridden(ov, name) ==
  /\ ov.given
  /\ DOMAIN ov.map # {}
  /\ name \in DOMAIN ov.map

\* the dict views when the loop over VIEW_ORDER has ended
MergeViews(dv, ov) ==
  [name \in {VIEW_ORDER[i] : i \in DOMAIN VIEW_ORDER} |->
     IF Overridden(ov, name)
     THEN DictUpdate(Base(dv, name), ov.map[name])
     ELSE Base(dv, name)]

\* the override of one view that a caller can pass
OverrideDicts ==
  { EmptyDict,
    [zoom |-> 90],
    [direction |-> <<100, 100, -30>>],
    [direction |-> <<100, 100, -30>>, zoom |-> 90],
    [normal |-> <<100, 0, 0>>] }

OverrideNames == {"iso", "section", "left"}

\* camera_overrides: None, or a map from some names to overrides
OverrideInputs ==
  {[given |-> FALSE, map |-> EmptyDict]}
  \cup {[given |-> TRUE, map |-> m] :
          m \in UNION {[S -> OverrideDicts] : S \in SUBSET OverrideNames}}

RenderInit ==
  /\ WriteIdle
  /\ ClassifyIdle
  /\ FaceIdle
  /\ MainIdle
  /\ default_views = DEFAULT_VIEWS
  /\ overrides \in OverrideInputs
  /\ views = <<>>
  /\ merges = 1
  /\ rpc = "call"

\* _merge_views(overrides), from "views = {}" to "return views"; base is a
\* copy, so the update leaves DEFAULT_VIEWS as it was
Merge ==
  /\ rpc = "call"
  /\ views' = MergeViews(default_views, overrides)
  /\ rpc' = "returned"
  /\ UNCHANGED <<default_views, overrides, merges>>
  /\ UNCHANGED <<wvars, cvars, fvars, mvars>>

\* a later call of _merge_views in the same process
MergeAgain ==
  /\ rpc = "returned"
  /\ merges < MaxMerges
  /\ overrides' \in OverrideInputs
  /\ merges' = merges + 1
  /\ rpc' = "call"
  /\ UNCHANGED <<default_views, views>>
  /\ UNCHANGED <<wvars, cvars, fvars, mvars>>

RenderNext ==
  \/ Merge
  \/ MergeAgain

RenderSpec == RenderInit /\ [][RenderNext]_vars

(***************************************************************************)
(* Reading a file the way the interchange format defines it, for the       *)
(* properties below.                                                       *)
(***************************************************************************)
NonSpace(s) == SelectSeq(s, LAMBDA t : ~IsSpace(t))

\* the positions of the name string of the face record #id in the text f
NamePositions(f, id) ==
  {d \in 1..Len(f) :
     /\ f[d].k = "str"
     /\ \E i \in 1..(d - 1) :
          /\ f[i] = Id(id)
          /\ NonSpace(SubSeq(f, i + 1, d - 1)) = <<P("="), AF, P("(")>>}

IsFaceRecord(f, id) == NamePositions(f, id) # {}

FaceName(f, id) == f[CHOOSE d \in NamePositions(f, id) : TRUE].v

AllIds(f) == {f[i].v : i \in {j \in 1..Len(f) : f[j].k = "id"}}

FaceRecordIds(f) == {id \in AllIds(f) : IsFaceRecord(f, id)}

\* the ids referenced by the shell records of f, concatenated in file order
InShellRecord(f, i) ==
  \E c \in 1..(i - 1) :
    f[c] = CS /\ \A j \in c..i : f[j] # P(";")

ShellFaceSequence(f) ==
  FindIds([i \in 1..Len(f) |-> IF InShellRecord(f, i) THEN f[i] ELSE P(";")])

HasShellRecord(f) == \E i \in 1..Len(f) : f[i] = CS

\* f with the name of every face record of ids emptied
BlankNames(f, ids) ==
  [d \in 1..Len(f) |->
     IF \E id \in ids : d \in NamePositions(f, id) THEN Str("") ELSE f[d]]

Min(a, b) == IF a < b THEN a ELSE b

\* the ids that were paired with a label by the call that just ended
PairedIds == {face_ids[i] : i \in 1..Min(Len(face_ids), Len(labels))}

(***************************************************************************)
(* Properties of write_labels.                                             *)
(***************************************************************************)

\* C1: after a call that ended with a write, the face record of the i-th id of
\* the extracted shell face sequence is named labels[i], for every position i
\* that has a label and a face record (equal labels included), and no face
\* record outside these positions has changed its name.
C1_LabelsLandOnTheirFaces ==
  pc = "done" =>
    /\ \A i \in 1..Min(Len(face_ids), Len(labels)) :
         IsFaceRecord(pre, face_ids[i]) =>
           /\ IsFaceRecord(file, face_ids[i])
           /\ FaceName(file, face_ids[i]) = labels[i]
    /\ \A id \in FaceRecordIds(pre) \ PairedIds :
         IsFaceRecord(file, id) /\ FaceName(file, id) = FaceName(pre, id)

\* a write of three labels, the first and the third equal, onto two shells
C1_Witness ==
  /\ pc = "done"
  /\ Len(face_ids) = 3
  /\ labels = <<"top", "", "top">>
  /\ FaceName(file, "11") = "top"
  /\ FaceName(file, "12") = ""
  /\ FaceName(file, "21") = "top"

\* C2: in every script, a call whose label count differs from the number of
\* extracted face ids opens the file for writing never and leaves it as it was.
C2_MismatchNeverWrites ==
  (pc \in Ended /\ err = "FaceCountMismatch") => (opens = 0 /\ file = pre)

(***************************************************************************)
(* What classify_faces owes each face, stated face by face.                *)
(***************************************************************************)
\* the counter the rules advance for the face f, "" if they advance none
CounterOf(f) ==
  LET after == ShowerheadLabel(f, ZeroCounters).counters
      bumped == {n \in DOMAIN ZeroCounters : after[n] = 1}
  IN IF bumped = {} THEN "" ELSE CHOOSE n \in bumped : TRUE

\* the label the rules give the i-th face of fs: numbered labels count the
\* faces before it that advance the same counter
LoopLabel(p, fs, i) ==
  IF p = "cylinder" THEN CylinderLabel(fs[i])
  ELSE ShowerheadLabel(fs[i],
         [n \in DOMAIN ZeroCounters |->
            Cardinality({j \in 1..(i - 1) : CounterOf(fs[j]) = n})]).label

\* the label of the i-th face in the returned sequence: of exactly two y_bore
\* faces the one with the lower centroid is y_bore_bottom (the second on a tie)
FinalLabel(p, fs, i) ==
  LET yb == {j \in 1..Len(fs) : LoopLabel(p, fs, j) = "y_bore"}
  IN IF p = "showerhead_tee" /\ Cardinality(yb) = 2 /\ i \in yb
     THEN LET o == CHOOSE j \in yb : j # i
              first == Min(i, o)
              second == IF first = i THEN o ELSE i
              lower == IF fs[first].cy < fs[second].cy THEN first ELSE second
          IN IF i = lower THEN "y_bore_bottom" ELSE "y_bore"
     ELSE LoopLabel(p, fs, i)

\* C3: classify_faces returns one label per face, as many labels as faces, and
\* the i-th label is the one the rules compute for the i-th face, also after the
\* second pass of showerhead_tee; while the loop runs the labels so far are
\* those of the faces so far, in order.
C3_OneLabelPerFaceInOrder ==
  /\ Len(class_labels) <= Len(faces)
  /\ cpc = "loop" =>
       \A i \in 1..Len(class_labels) : class_labels[i] = LoopLabel(part, faces, i)
  /\ cpc = "returned" =>
       /\ Len(class_labels) = Len(faces)
       /\ \A i \in 1..Len(faces) : class_labels[i] = FinalLabel(part, faces, i)

\* three faces of the tee: the lower bore face, a rim face, the upper bore face
C3_Witness ==
  /\ cpc = "returned"
  /\ part = "showerhead_tee"
  /\ Len(faces) = 3
  /\ faces[1].cy < faces[3].cy
  /\ class_labels = <<"y_bore_bottom", "kf_flange.cylindrical_1", "y_bore">>

\* C4: apart from the substituted name strings the written file is the file
\* that was read, byte for byte.
C4_BytesOutsideNamesKept ==
  pc = "done" => BlankNames(file, PairedIds) = BlankNames(pre, PairedIds)

\* C5: a call with the label sequence of the call before it, on the file that
\* call left, leaves the file as that call left it.
C5_Idempotent ==
  (pc \in Ended /\ last.pc \in Ended /\ last.labels = labels) => file = pre

\* the second of two completed calls with the same two labels
C5_Witness ==
  /\ pc = "done"
  /\ last.pc = "done"
  /\ labels = <<"top", "">>
  /\ last.labels = labels
  /\ FaceName(file, "11") = "top"

\* C6: a call whose labels are the names the face records already carry writes
\* a file identical to the one it read.
C6_RoundTrip ==
  ( /\ pc = "done"
    /\ Len(face_ids) = Len(labels)
    /\ \A i \in 1..Len(face_ids) :
         IsFaceRecord(pre, face_ids[i]) /\ FaceName(pre, face_ids[i]) = labels[i] )
  => file = pre

\* C7: the face-id sequence used is the concatenation, in file order, of the
\* references of every shell record, and a label sequence of another length
\* than that total ends the call without a write.
C7_AllShellsConcatenated ==
  /\ pc \in {"count", "subst", "write", "done"} =>
       face_ids = ShellFaceSequence(pre)
  /\ (pc \in Ended /\ Len(labels) # Len(ShellFaceSequence(pre))) =>
       (opens = 0 /\ file = pre)

\* C8: on a file without a shell record the call ends fatally after the shell
\* lookup: it reaches no later step, writes nothing and does not return normally.
C8_NoShellIsFatal ==
  (~HasShellRecord(pre) /\ "shell" \in {steps[i] : i \in 1..Len(steps)}) =>
    (pc = "fatal" /\ opens = 0 /\ file = pre)

\* C9: when an id of the shell face sequence names a record that is no face
\* record, the call ends fatally and writes nothing.
C9_NonFaceIsFatal ==
  ( /\ pc \in Ended
    /\ Len(face_ids) = Len(labels)
    /\ \E i \in 1..Len(face_ids) : ~IsFaceRecord(pre, face_ids[i]) )
  => (pc = "fatal" /\ opens = 0 /\ file = pre)

\* C10: the file is opened for writing at most once in a call, and only as the
\* last step after the shell lookup, the count check and the substitutions, in
\* that order; a call that ends fatally leaves the file as it was.
C10_WriteLastAndAllOrNothing ==
  /\ opens <= 1
  /\ opens = 1 =>
       /\ pc = "done"
       /\ Len(steps) >= 4
       /\ SubSeq(steps, Len(steps) - 3, Len(steps))
            = <<"shell", "count", "subst", "write">>
  /\ opens = 0 => file = pre
  /\ pc = "fatal" => (opens = 0 /\ file = pre)

\* a call that ended fatally on a count mismatch and one that ended with a write
C10_Witness ==
  /\ calls = 2
  /\ pc = "fatal"
  /\ err = "FaceCountMismatch"
  /\ last.pc = "done"
  /\ labels # <<>>

\* C11: a call that meets a face-count mismatch or a file without a shell record
\* ends by raising: it neither returns normally nor goes on to a write.
C11_MismatchOrNoShellRaises ==
  ( /\ pc \in Ended
    /\ \/ err \in {"FaceCountMismatch", "ShellNotFound"}
       \/ Len(face_ids) # Len(labels)
       \/ ~HasShellRecord(pre) )
  => pc = "fatal"

(***************************************************************************)
(* Properties of the rules put to one face.                                *)
(***************************************************************************)
\* the face is one the rules of disc or spoke_v2 number with the hub index
\* round(angle / width - 0.5), whose sectors lie between the spokes
IsHubFace(s, f) ==
  /\ f.stype = "Cylinder"
  /\ \/ s = "disc" /\ Abs(f.r - disc_radius) >= 10 /\ Abs(f.r - hub_r) < 10
     \/ s = "spoke_v2" /\ Abs(f.r - v2_radius) >= 10 /\ Abs(f.r - v2_hub_r) < 10

\* the number of sectors of the script s
SectorCount(s) ==
  CASE s = "disc" -> n_spokes
    [] s = "spoke_v2" -> v2_n_spokes
    [] s = "cylinder" -> n_teeth
    [] s = "crankset" -> n_arms

\* the distance of two angles around the circle
CircDist(a, b) ==
  LET d == (a - b) % 36000
  IN IF d > 18000 THEN 36000 - d ELSE d

\* the centre of sector i of n
Centre(i, n) == i * (36000 \div n)

\* C12 as stated: with 5 sectors of 72 degrees a centroid at 71.9 degrees gets
\* sector index 0.
C12_At719IndexIs0 ==
  ( /\ fpc = "labelled"
    /\ SectorCount(fscript) = 5
    /\ face.ang = 7190
    /\ index # -1
    /\ ~IsHubFace(fscript, face) )
  => index = 0

\* C12 amended: with 5 sectors of 72 degrees a centroid at 71.9 degrees gets
\* sector index 1, the sector centred at 72 degrees.
C12_At719IndexIs1 ==
  ( /\ fpc = "labelled"
    /\ SectorCount(fscript) = 5
    /\ face.ang = 7190
    /\ index # -1
    /\ ~IsHubFace(fscript, face) )
  => index = 1

\* a rim face of the disc at 71.9 degrees, labelled as the second rim sector
C12_Witness ==
  /\ fpc = "labelled"
  /\ fscript = "disc"
  /\ face.ang = 7190
  /\ index = 1
  /\ flabel = "rim_02"

\* C13: the sector index of disc and spoke_v2 lies in 0..count-1, the groove
\* index of the cylinder in 1..count; either is the index of a sector centre no
\* other centre is nearer to the centroid angle, around the circle, so that
\* angles less than half a sector from 0 degrees on either side get the first
\* sector.
C13_IndexIsNearestCentre ==
  ( /\ fpc = "labelled"
    /\ fscript \in {"disc", "spoke_v2", "cylinder"}
    /\ index # -1
    /\ ~IsHubFace(fscript, face) )
  => LET n == SectorCount(fscript)
         i == IF fscript = "cylinder" THEN index - 1 ELSE index
     IN /\ i \in 0..(n - 1)
        /\ \A j \in 0..(n - 1) :
             CircDist(face.ang, Centre(i, n)) <= CircDist(face.ang, Centre(j, n))
        /\ 2 * CircDist(face.ang, 0) < 36000 \div n => i = 0

\* a groove root face of the cylinder at 359.9 degrees, in the first groove
C13_Witness ==
  /\ fpc = "labelled"
  /\ fscript = "cylinder"
  /\ face.ang = 35990
  /\ index = 1
  /\ flabel = "spline.root_01"

\* C14: the cylinder's rules label a horizontal planar face (|normal z| > 0.9)
\* whose centroid height is within 0.2 of 0 "bottom" and one whose centroid
\* height is within 0.2 of 50.0 "top"; so a centroid at height 0 gives "bottom"
\* and one at height 50.05 gives "top".
C14_BottomAndTop ==
  ( /\ fpc = "labelled"
    /\ fscript = "cylinder"
    /\ face.stype = "Plane"
    /\ Abs(face.nz) > 90 )
  => /\ Abs(face.cz) < 20 => flabel = "bottom"
     /\ Abs(face.cz - 5000) < 20 => flabel = "top"
     /\ face.cz = 0 => flabel = "bottom"
     /\ face.cz = 5005 => flabel = "top"

\* a horizontal planar face at height 50.05, labelled top
C14_Witness ==
  /\ fpc = "labelled"
  /\ fscript = "cylinder"
  /\ face.stype = "Plane"
  /\ face.nz = 100
  /\ face.cz = 5005
  /\ flabel = "top"

\* C15: the cylinder's rules label a cylindrical face whose radius is within
\* 0.1 of the bore radius 2.5 "bore.wall" at every centroid height; the rules
\* for the outer cylinder and the channel floor do not take such a radius.
C15_BoreWall ==
  ( /\ fpc = "labelled"
    /\ fscript = "cylinder"
    /\ face.stype = "Cylinder"
    /\ Abs(face.r - 250) < 10 )
  => /\ flabel = "bore.wall"
     /\ Abs(face.r - 500) >= 10
     /\ Abs(face.r - 450) >= 20

\* a cylindrical face of radius 2.52 at the top of the part, labelled bore.wall
C15_Witness ==
  /\ fpc = "labelled"
  /\ fscript = "cylinder"
  /\ face.stype = "Cylinder"
  /\ face.r = 252
  /\ face.cz = 5000
  /\ flabel = "bore.wall"

(***************************************************************************)
(* Properties of classify_faces on a sequence of faces.                    *)
(***************************************************************************)
\* the labels the last branches of the showerhead rules build for f
ShowerheadFallbacks(f) ==
  { "bore_(" \o Fixed(f.dx, 10, 1) \o "," \o Fixed(f.dy, 10, 1) \o ","
       \o Fixed(f.dz, 10, 1) \o ")",
    "cyl_r" \o Fixed(f.r, 10000, 2),
    "planar_n(" \o Fixed(f.nx, 100, 2) \o "," \o Fixed(f.ny, 100, 2) \o ","
       \o Fixed(f.nz, 100, 2) \o ")",
    "type_" \o f.stype }

\* no rule of the part p matches the face f
Unmatched(p, f) ==
  IF p = "cylinder" THEN CylinderLabel(f) = "?"
  ELSE ShowerheadLabel(f, ZeroCounters).label \in ShowerheadFallbacks(f)

\* C16: a face that matches no rule is labelled so that the label tells its
\* surface kind (two unmatched faces of different kinds never share a label) and
\* is no label a matched face of the same run received.
C16_UnmatchedLabelTellsKind ==
  cpc = "returned" =>
    /\ Len(class_labels) = Len(faces)
    /\ \A i, j \in 1..Len(faces) :
         ( /\ Unmatched(part, faces[i])
           /\ \/ ~Unmatched(part, faces[j])
              \/ faces[j].stype # faces[i].stype )
         => class_labels[i] # class_labels[j]

\* C18: the label classify_faces returns for a face is the label it returns
\* for that face as the only face of a sequence: it depends on the face alone,
\* not on its position nor on the faces around it, so that equal faces get equal
\* labels in any order.
C18_LabelDependsOnFaceAlone ==
  cpc = "returned" =>
    /\ \A i \in 1..Len(class_labels) :
         class_labels[i] = FinalLabel(part, <<faces[i]>>, 1)
    /\ \A i, j \in 1..Len(class_labels) :
         faces[i] = faces[j] => class_labels[i] = class_labels[j]

\* the face was labelled as a side face of spoke index + 1
IsSpokeSide ==
  /\ fpc = "labelled"
  /\ fscript \in {"disc", "spoke_v2"}
  /\ index # -1
  /\ flabel \in {LabIdx("spoke_", index, ".left").label,
                 LabIdx("spoke_", index, ".right").label}

\* the face whose centroid is the mirror image of that of f across the
\* centre line of the spoke at angle a
Mirrored(f, a) == [f EXCEPT !.ang = (2 * a - f.ang) % 36000]

\* C20: a side face of spoke si is "left" exactly when the centroid lies less
\* than half a turn counter-clockwise of the spoke direction (the cross product
\* of the direction with the centroid vector is positive) and "right" otherwise,
\* also on the centre line; and the face whose centroid is the mirror image
\* across the centre line, if it is another face of the same spoke, gets the
\* other side.
C20_SideIsSignOfCross ==
  IsSpokeSide =>
    LET a == Centre(index, SectorCount(fscript))
        d == (face.ang - a) % 36000
        m == OneLabel(fscript, Mirrored(face, a))
    IN /\ flabel = LabIdx("spoke_", index,
                          IF face.rc > 0 /\ 0 < d /\ d < 18000
                          THEN ".left" ELSE ".right").label
       /\ (m.index = index /\ Mirrored(face, a).ang # face.ang) =>
            m.label # flabel

\* a side face of the second spoke of the disc, one degree past the centre line
C20_Witness ==
  /\ IsSpokeSide
  /\ fscript = "disc"
  /\ face.ang = 7300
  /\ flabel = "spoke_02.left"
  /\ OneLabel(fscript, Mirrored(face, 7200)).label = "spoke_02.right"

\* the generic labels the rules of a script fall back on for a face none of
\* the specific rules matched
GenericLabels(s, f) ==
  CASE s = "cylinder" -> {"?"}
    [] s = "disc" -> {"?", "cyl_r" \o Fixed(f.r, 100, 1)}
    [] s = "crankset" ->
         {"?", "planar_vertical", "planar_z" \o Fixed0(f.cz, 100),
          "pedal.planar_z" \o Fixed0(f.cz, 100)}

\* the faces classified in this run that matched no specific rule
UnmatchedFaces ==
  {i \in 1..Len(mfaces) : mlabels[i] \in GenericLabels(mscript, mfaces[i])}

\* C17: a face that matches no rule does not end the run (a run ends early
\* only on a count mismatch), and the count of unclassified faces reported at
\* the end of the run is the number of faces that matched no specific rule,
\* those with a generic fallback label included.
C17_UnclassifiedCounted ==
  /\ mpc = "fatal" => Len(mlabels) # Len(solid)
  /\ mpc = "done" => written /\ unlabeled = Cardinality(UnmatchedFaces)

\* C19: the classifier takes its faces from the solid in memory, in the
\* solid's order, never from the exported file read back.
C19_ClassifiesTheSolid ==
  mpc \in {"classified", "labelled", "fatal", "done"} =>
    source = "solid" /\ mfaces = solid

\* the names of VIEW_ORDER
ViewNames == {"iso", "front", "back", "top", "section"}

\* the fields the override map gives for a view, none if it has no entry for it
GivenFields(ov, name) ==
  IF ov.given /\ name \in DOMAIN ov.map THEN DOMAIN ov.map[name] ELSE {}

\* C21: _merge_views returns exactly the five views of VIEW_ORDER; in each, a
\* field the override gives has the override's value and every other field is
\* the default's, entries for unknown view names are ignored, and
\* DEFAULT_VIEWS is left as it was, so a later call without overrides returns
\* the defaults.
C21_MergedViews ==
  rpc = "returned" =>
    /\ DOMAIN views = ViewNames
    /\ \A name \in ViewNames :
         /\ DOMAIN views[name] =
              DOMAIN DEFAULT_VIEWS[name] \cup GivenFields(overrides, name)
         /\ \A k \in DOMAIN views[name] :
              views[name][k] = IF k \in GivenFields(overrides, name)
                               THEN overrides.map[name][k]
                               ELSE DEFAULT_VIEWS[name][k]
    /\ default_views = DEFAULT_VIEWS
    /\ (\A name \in ViewNames : GivenFields(overrides, name) = {})
         => views = DEFAULT_VIEWS

\* a second call has returned; it overrode the zoom of iso alone and had an
\* entry for an unknown view
C21_Witness ==
  /\ rpc = "returned"
  /\ merges = MaxMerges
  /\ overrides.given
  /\ DOMAIN overrides.map = {"iso", "left"}
  /\ DOMAIN overrides.map["iso"] = {"zoom"}
  /\ views["iso"]["zoom"] = 90
  /\ views["iso"]["direction"] = <<100, 100, -60>>

\* C22: a classify_faces call on the same faces returns the label list the
\* call before returned: no counter or index survives a call.
C22_CallsAgree ==
  cpc = "returned" => \A i \in DOMAIN earlier : earlier[i] = class_labels

\* a second showerhead call has returned numbered labels
C22_Witness ==
  /\ cpc = "returned"
  /\ Len(earlier) = 1
  /\ part = "showerhead_tee"
  /\ \E i \in DOMAIN class_labels : class_labels[i] = "kf_flange.conical_2"

\* the records of f as the format reads them: white space between lexemes
\* dropped, and the names of the face records of ids left out of account
RecordsBut(f, ids) ==
  LET g == NonSpace(f)
  IN [d \in 1..Len(g) |->
        IF /\ d >= 5
           /\ g[d].k = "str"
           /\ <<g[d - 3], g[d - 2], g[d - 1]>> = <<P("="), AF, P("(")>>
           /\ g[d - 4].k = "id"
           /\ g[d - 4].v \in ids
        THEN Str("")
        ELSE g[d]]

\* C23: record by record, a write_labels call changes nothing but names of
\* face records of the extracted shell face sequence: the ids, the order of
\* the records, the shell records and every other record are as before.
C23_OnlyNamesChange ==
  pc \in Ended =>
    LET ids == {face_ids[i] : i \in DOMAIN face_ids}
    IN RecordsBut(file, ids) = RecordsBut(pre, ids)

\* build_cylinder has relabelled the faces of the first of two shells; the
\* face of the second shell is in the file as it was
C23_Witness ==
  /\ pc = "done"
  /\ script = "cylinder"
  /\ face_ids = <<"11", "12">>
  /\ labels = <<"top", "top">>
  /\ FaceName(file, "11") = "top"
  /\ IsFaceRecord(pre, "21")
  /\ FaceName(file, "21") = ""
  /\ file # pre

\* f has a physical line that begins with white space
HasContinuation(f) ==
  \E i \in 1..(Len(f) - 1) : f[i].k = "nl" /\ f[i + 1].k = "ws"

\* the ids the first shell record of f references, up to the end of the record
FirstShellSequence(f) ==
  LET cs == {i \in 1..Len(f) : f[i] = CS}
  IN IF cs = {} THEN <<>>
     ELSE LET c == MinOf(cs)
              e == MinOf({j \in c..Len(f) : f[j] = P(";")})
          IN FindIds(SubSeq(f, c, e))

IsPrefix(a, b) ==
  Len(a) <= Len(b) /\ \A i \in 1..Len(a) : a[i] = b[i]

\* the shell lookup of the current call is over and found a shell
LookedUp ==
  \/ pc \in {"count", "subst", "write", "done"}
  \/ pc \in Ended /\ err \in {"FaceCountMismatch", "KeyError"}

\* C24: a record split over continuation lines is read as one record: the
\* shell lookup finds the shell record and takes every id it references, in
\* order, and a face record whose name is on a continuation line gets its
\* label.
C24_ContinuationLinesJoined ==
  HasContinuation(pre) =>
    /\ (HasShellRecord(pre) /\ "shell" \in {steps[i] : i \in DOMAIN steps})
         => LookedUp
    /\ LookedUp => IsPrefix(FirstShellSequence(pre), face_ids)
    /\ pc = "done" =>
         \A i \in 1..Min(Len(face_ids), Len(labels)) :
           IsFaceRecord(pre, face_ids[i]) =>
             FaceName(file, face_ids[i]) = labels[i]

\* a shell record wrapped after its first reference was read whole, and so
\* was a face record wrapped before its name
C24_Witness ==
  /\ pc = "done"
  /\ calls = 1
  /\ script \in LineJoinScripts
  /\ \/ /\ pre = StepFile("single", "wrapshell")
        /\ face_ids = <<"11", "12">>
     \/ /\ pre = StepFile("single", "wrapface")
        /\ labels = <<"top", "top">>
        /\ FaceName(file, "12") = "top"

\* C25: _nearest_arm_index returns an index in 0..4 whose arm angle is nearest
\* to the angle around the circle, and the lowest such index when two arms
\* are equally near.
C25_NearestArmLowestOnTie ==
  (fpc = "labelled" /\ fscript = "crankset") =>
    /\ index \in 0..4
    /\ \A j \in 0..4 :
         /\ CircDist(face.ang, j * 7200) >= CircDist(face.ang, index * 7200)
         /\ CircDist(face.ang, j * 7200) = CircDist(face.ang, index * 7200)
              => j >= index

\* 359 degrees went to arm 0, or 324 degrees (as near to arm 4 as to arm 0)
\* went to arm 0
C25_Witness ==
  /\ fpc = "labelled"
  /\ fscript = "crankset"
  /\ face.ang \in {35900, 32400}
  /\ index = 0

\* C26: a hub arc whose centroid angle lies strictly between spoke k and spoke
\* k + 1 gets the hub index k; the window before 360 degrees gets count - 1.
C26_HubIndexIsWindow ==
  (fpc = "labelled" /\ IsHubFace(fscript, face)) =>
    LET n == SectorCount(fscript)
        width == 36000 \div n
    IN \A k \in 0..(n - 1) :
         (k * width < face.ang /\ face.ang < (k + 1) * width) => index = k

\* hub arcs of the disc just after spoke 1 and just before 360 degrees
C26_Witness ==
  /\ fpc = "labelled"
  /\ fscript = "disc"
  /\ IsHubFace(fscript, face)
  /\ \/ face.ang = 7210 /\ index = 1
     \/ face.ang = 35990 /\ index = 4

\* C27: the second pass of the showerhead classifier renames exactly one
\* label, and only when exactly two faces are labelled y_bore: the one with
\* the strictly lower centroid Y, the second of the two when the Y values are
\* equal, becomes y_bore_bottom; every other label stays as the loop left it.
C27_SecondPassRenamesLower ==
  [][(part = "showerhead_tee" /\ cpc = "loop" /\ cpc' = "returned") =>
       LET yb == {i \in DOMAIN class_labels : class_labels[i] = "y_bore"}
       IN /\ DOMAIN class_labels' = DOMAIN class_labels
          /\ \A i \in DOMAIN class_labels \ yb : class_labels'[i] = class_labels[i]
          /\ Cardinality(yb) # 2 => class_labels' = class_labels
          /\ Cardinality(yb) = 2 =>
               LET a == CHOOSE i \in yb : \A j \in yb : i <= j
                   b == CHOOSE i \in yb : \A j \in yb : j <= i
                   lower == IF faces[a].cy < faces[b].cy THEN a ELSE b
                   upper == IF lower = a THEN b ELSE a
               IN /\ class_labels'[lower] = "y_bore_bottom"
                  /\ class_labels'[upper] = "y_bore"]_vars

\* two bore faces of equal height: the second was renamed
C27_Witness ==
  /\ cpc = "returned"
  /\ part = "showerhead_tee"
  /\ Len(faces) = 3
  /\ faces[1].cy = faces[3].cy
  /\ class_labels[1] = "y_bore"
  /\ class_labels[3] = "y_bore_bottom"

\* the labels of the most recent call on this file that passed the count
\* check and went on to write, <<>> if no call did (the earlier call read the
\* same shell records, so it passed the check with as many labels as there are
\* face ids now)
RecentPassedLabels ==
  IF pc = "done" /\ Len(labels) = Len(face_ids) THEN labels
  ELSE IF last.pc = "done" /\ Len(last.labels) = Len(face_ids) THEN last.labels
  ELSE <<>>

\* C28: after any sequence of write_labels calls on one file, the faces of the
\* shell face sequence are named by the labels of the most recent call that
\* passed the count check, whole label for whole name; a call that failed the
\* check leaves no trace (the names are the exporter's empty names if no call
\* passed).
C28_NamesAreLastPassedLabels ==
  pc \in Ended =>
    \A i \in DOMAIN face_ids :
      IsFaceRecord(file, face_ids[i]) =>
        FaceName(file, face_ids[i]) =
          IF RecentPassedLabels = <<>> THEN "" ELSE RecentPassedLabels[i]

\* C29: with the 5 sectors of 72 degrees of the disc, the sector index
\* round(angle / width) mod count sends a centroid angle on a sector boundary
\* to the even neighbour: 36 degrees to index 0, 108 to 2, 180 to 2, 252
\* to 4 and 324 to 4, so index 1 and index 3 never win a boundary tie.
C29_BoundaryTiesGoToEven ==
  ( /\ fpc = "labelled"
    /\ fscript = "disc"
    /\ SectorCount(fscript) = 5
    /\ index # -1
    /\ ~IsHubFace(fscript, face) ) =>
    /\ face.ang = 3600 => index = 0
    /\ face.ang = 10800 => index = 2
    /\ face.ang = 18000 => index = 2
    /\ face.ang = 25200 => index = 4
    /\ face.ang = 32400 => index = 4
    /\ face.ang % 7200 = 3600 => index \notin {1, 3}

\* a rim face of the disc at 180 degrees got index 2
C29_Witness ==
  /\ fpc = "labelled"
  /\ fscript = "disc"
  /\ face.stype = "Cylinder"
  /\ face.ang = 18000
  /\ flabel = "rim_03"
  /\ index = 2

\* the rules of the disc for a planar face f, in the order they are written:
\* whether f satisfies the rule, and the label the rule gives (si the sector
\* index)
DiscPlaneRules(f, si) ==
  << [hit |-> Abs(f.cz - 2000) < 1, label |-> "top"],
     [hit |-> Abs(f.cz - 300) < 10, label |-> "top_shelf_" \o Fmt02(si + 1)],
     [hit |-> Abs(f.cz) < 1 /\ f.rc < 1100, label |-> "bottom"],
     [hit |-> Abs(f.cz) < 1, label |-> "bottom_shelf_" \o Fmt02(si + 1)] >>

\* the rules of the cylinder part for a cylindrical face
CylinderRadiusRules(f) ==
  << [hit |-> Abs(f.r - 500) < 10, label |-> "cylinder"],
     [hit |-> Abs(f.r - 250) < 10, label |-> "bore.wall"],
     [hit |-> Abs(f.r - 450) < 20,
      label |-> IF f.cz < 2500 THEN "channel.bottom.floor" ELSE "channel.top.floor"] >>

\* the label of the first rule that f satisfies, wherever one does
FirstRuleWins(rules, l) ==
  \A i \in DOMAIN rules :
    (rules[i].hit /\ \A j \in 1..(i - 1) : ~rules[j].hit) => l = rules[i].label

\* C30: tolerance bands are open and the first rule that matches wins: a
\* radius or height at exactly the tolerance from the nominal value does not
\* get the feature's label (a radius of 2.6 on the cylinder part is not
\* bore.wall), and a face that satisfies two rules has the label of the rule
\* written first.
C30_OpenBandsFirstMatch ==
  fpc = "labelled" =>
    /\ (fscript = "cylinder" /\ face.stype = "Cylinder") =>
         /\ Abs(face.r - 250) = 10 => flabel # "bore.wall"
         /\ Abs(face.r - 500) = 10 => flabel # "cylinder"
         /\ Abs(face.r - 450) = 20 =>
              flabel \notin {"channel.bottom.floor", "channel.top.floor"}
         /\ FirstRuleWins(CylinderRadiusRules(face), flabel)
    /\ (fscript = "cylinder" /\ face.stype = "Plane") =>
         /\ Abs(face.cz) = 20 => flabel # "bottom"
         /\ Abs(face.cz - 5000) = 20 => flabel # "top"
    /\ (fscript = "disc" /\ face.stype = "Plane") =>
         FirstRuleWins(DiscPlaneRules(face, index), flabel)

\* a radius of 2.6 on the cylinder part was put to the rules
C30_Witness ==
  /\ fpc = "labelled"
  /\ fscript = "cylinder"
  /\ face.stype = "Cylinder"
  /\ face.r = 260
  /\ flabel = "?"

====
